---- MODULE Spec2Model ----
(***************************************************************************)
(* Procrastination_Alarm: the intervention decision loop.                  *)
(*                                                                         *)
(*   ProductivityAgent   (productivity-agent.ts, the second half of        *)
(*                        src/screen-analyzer.ts, lines 140-409)           *)
(*   AgentBasedDetector  (src/agent-detector.ts)                           *)
(*   ActivityMonitor     (src/activity-monitor.ts)                         *)
(*   MemorySystem        (memory-system.ts, src/unnamed/part_006)          *)
(*   ScreenAnalyzer      (the first half of src/screen-analyzer.ts,        *)
(*                        lines 1-137)                                     *)
(*                                                                         *)
(* A record of an intervention carries a field seq that the program does   *)
(* not have: the ordinal of the append that stores the object (it stands   *)
(* for the object's identity).                                             *)
(*                                                                         *)
(* An optional JavaScript value (a field that may be undefined) is a       *)
(* sequence of length at most one: None is undefined, Some(x) is x.        *)
(***************************************************************************)
EXTENDS Integers, Sequences, FiniteSets, TLC

None == <<>>
Some(x) == <<x>>

Min(S) == CHOOSE x \in S : \A y \in S : x <= y
Max(S) == CHOOSE x \in S : \A y \in S : x >= y

(***************************************************************************)
(* Bounds of the model.                                                    *)
(***************************************************************************)
\* longest backend response text, in tokens
MaxTextLen == 2
\* records appended to the history in SpecAgent
MaxCalls == 3
\* records appended to the history in SpecHistory (more than maxHistorySize)
MaxAppends == 12
\* decision cycles (runAgentCheck invocations) in SpecDetector
MaxCycles == 2
\* the clock advances by TimeStep seconds, up to MaxTime
TimeStep == 60
MaxTime == 120
\* SpecMemory: hours that pass, sessions closed, interventions counted, the
\* largest denominator of the rate, and failed writes of the memory file
MaxHours == 1
MaxSessions == 2
MaxInterventions == 1
MaxRateDen == 10
MaxWriteFailures == 1
\* SpecDismiss: seconds of clock time
MaxDismissSeconds == 6
\* SpecLog: sessions closed on top of a session log that is nearly full
MaxCloses == 2
\* SpecRate: effectiveness samples
MaxSamples == 6
\* SpecTopHours: the largest count of a bucket, and the largest n of a query
MaxCount == 2
MaxTop == 3
\* SpecMonitor: seconds that pass
MaxSeconds == 12

(***************************************************************************)
(* Program constants.                                                      *)
(***************************************************************************)
\* ProductivityAgent.maxHistorySize
maxHistorySize == 10
\* AgentConfig.idleThresholdSeconds of the main program
idleThresholdSeconds == 5
\* handleActivityDetected: resumed within a minute
EffectiveWithinSeconds == 60
\* endSession keeps the last 100 sessions
MaxStoredSessions == 100
\* Date.getHours: the hour of the day
SecondsPerHour == 3600
HoursPerDay == 24

VARIABLES
    interventionHistory, \* ProductivityAgent.interventionHistory
    lastDecision,        \* the AgentDecision the last decideIntervention returned
    lastCall,            \* the last call on the agent: whether it threw, whether
                         \* it asked the backend, the text it returned
    appended,            \* records pushed onto the history so far
    response,            \* SpecParse: the backend response under test
    lastAnalysis,        \* the last analyzeCurrentActivity call: what the capture
                         \* and the vision backend did, and the value it resolved to
    now,                 \* Date.now(), in seconds
    lastActivityTime,    \* ActivityMonitor.lastActivityTime, in seconds
    isIdle,              \* ActivityMonitor.isIdle
    idleCheckInterval,   \* ActivityMonitor.idleCheckInterval is armed
    listening,           \* ActivityMonitor.start is in its gkm event loop
    callbacks,           \* how often the monitor has invoked each of its callbacks
    alarmActive,         \* AgentBasedDetector.alarmActive
    lastInterventionTime, \* AgentBasedDetector.lastInterventionTime, in seconds
    executed,            \* the records passed to executeIntervention so far (their seq)
    screenCheckInterval, \* AgentBasedDetector.screenCheckInterval is armed
    cycles,              \* the runAgentCheck invocations and where each is suspended
    sessions,            \* MemorySystem.sessions
    currentSession,      \* MemorySystem.currentSession
    userProfile,         \* MemorySystem.userProfile
    disk,                \* the content of ./procrastination_memory.json
    writeFailures,       \* how often writing the memory file has failed
    lastMemoryCall,      \* the last call on the store and how it ended
    ema                  \* the rate the store started from, and the samples since

agentVars == <<interventionHistory, lastDecision, lastCall, appended>>
monitorVars == <<lastActivityTime, isIdle, idleCheckInterval, listening, callbacks>>
detectorVars ==
    <<alarmActive, lastInterventionTime, executed, screenCheckInterval, cycles>>
memoryVars ==
    <<sessions, currentSession, userProfile, disk, writeFailures, lastMemoryCall, ema>>
vars == <<agentVars, response, lastAnalysis, now, monitorVars, detectorVars, memoryVars>>

(***************************************************************************)
(* The reasoning backend's response: either the call fails (runTask or the *)
(* event stream throws), or it yields a text.  A text is a sequence of     *)
(* tokens: "p" is prose without braces, "{" and "}" are single braces, and *)
(* "J" is the serialised JSON object described by the payload field.       *)
(***************************************************************************)
Tokens == {"p", "{", "}", "J"}

Texts == UNION {[1..n -> Tokens] : n \in 0..MaxTextLen}

\* JSON values a backend may put in the decision object's members
JsonShouldIntervene == {"true", "false", "string", "absent"}
JsonReasoning == {"text", "empty", "absent"}
JsonConfidence == {None, Some(-1), Some(0), Some(100), Some(101)}
InterventionTypes == {"alarm", "notification", "gentle_reminder", "none"}
JsonTypes == InterventionTypes \cup {"popup", "undefined"}

\* the "intervention" member: missing, a falsy value (null, 0, "", false),
\* a truthy primitive (a string, a number, true) or an object
JsonIntervention(t) ==
    {[kind |-> k, type |-> "undefined", message |-> "", timestamp |-> t]
        : k \in {"absent", "falsy", "primitive"}}
    \cup
    {[kind |-> "object", type |-> ty, message |-> "msg", timestamp |-> t]
        : ty \in JsonTypes}

Payloads(t) ==
    [shouldIntervene : JsonShouldIntervene,
     intervention : JsonIntervention(t),
     reasoning : JsonReasoning,
     confidence : JsonConfidence]

\* the object text "{}"
EmptyPayload(t) ==
    [shouldIntervene |-> "absent",
     intervention |-> [kind |-> "absent", type |-> "undefined", message |-> "",
                       timestamp |-> t],
     reasoning |-> "absent",
     confidence |-> None]

HasJ(text) == \E i \in DOMAIN text : text[i] = "J"

\* every response over the bounded texts; a text without "J" carries no payload
Responses(t) ==
    {[failed |-> TRUE, text |-> <<>>, payload |-> EmptyPayload(t)]}
    \cup
    {[failed |-> FALSE, text |-> tx, payload |-> EmptyPayload(t)]
        : tx \in {x \in Texts : ~HasJ(x)}}
    \cup
    {[failed |-> FALSE, text |-> tx, payload |-> p]
        : tx \in {x \in Texts : HasJ(x)}, p \in Payloads(t)}

(***************************************************************************)
(* ScreenAnalyzer.  The vision backend's reply is a text of the same       *)
(* tokens, "J" standing for the serialised JSON value the payload          *)
(* describes: an object with any of the four members, or a value that is   *)
(* not an object.                                                          *)
(***************************************************************************)
JsonKinds == {"object", "null", "number", "string", "array"}
JsonIsProcrastinating == {"true", "false", "string", "absent"}
JsonText == {"text", "absent"}

ScreenPayloads ==
    [kind : {"object"},
     isProcrastinating : JsonIsProcrastinating,
     confidence : JsonConfidence,
     reason : JsonText,
     suggestedAction : JsonText]
    \cup
    [kind : JsonKinds \ {"object"},
     isProcrastinating : {"absent"},
     confidence : {None},
     reason : {"absent"},
     suggestedAction : {"absent"}]

\* the object text "{}"
EmptyScreenPayload ==
    [kind |-> "object", isProcrastinating |-> "absent", confidence |-> None,
     reason |-> "absent", suggestedAction |-> "absent"]

\* what happens inside analyzeCurrentActivity: the platform, the screenshot
\* (whether the capture command saved the file, whether reading it worked),
\* the backend call and the content of its message, and whether Deno.remove
\* can delete the file
ScreenOutcomes ==
    {[capture |-> "unsupported", written |-> FALSE, backend |-> "ok", removeOk |-> TRUE,
      text |-> <<>>, payload |-> EmptyScreenPayload]}
    \cup
    {[capture |-> "failed", written |-> w, backend |-> "ok", removeOk |-> TRUE,
      text |-> <<>>, payload |-> EmptyScreenPayload]
        : w \in BOOLEAN}
    \cup
    {[capture |-> "ok", written |-> TRUE, backend |-> "failed", removeOk |-> TRUE,
      text |-> <<>>, payload |-> EmptyScreenPayload]}
    \cup
    {[capture |-> "ok", written |-> TRUE, backend |-> "noText", removeOk |-> ok,
      text |-> <<>>, payload |-> EmptyScreenPayload]
        : ok \in BOOLEAN}
    \cup
    {[capture |-> "ok", written |-> TRUE, backend |-> "ok", removeOk |-> ok,
      text |-> tx, payload |-> EmptyScreenPayload]
        : tx \in {x \in Texts : ~HasJ(x)}, ok \in BOOLEAN}
    \cup
    {[capture |-> "ok", written |-> TRUE, backend |-> "ok", removeOk |-> ok,
      text |-> tx, payload |-> p]
        : tx \in {x \in Texts : HasJ(x)}, p \in ScreenPayloads, ok \in BOOLEAN}

\* the safe default of the two catch blocks
ScreenDefault(reason) ==
    [kind |-> "object", isProcrastinating |-> "false", confidence |-> Some(0),
     reason |-> reason, suggestedAction |-> "Continue working"]

\* JSON.parse of the whole text: None when it throws a SyntaxError
ScreenJsonParse(text, payload) ==
    IF text = <<"J">> THEN Some(payload)
    ELSE IF text = <<"{", "}">> THEN Some(EmptyScreenPayload)
    ELSE None

\* parseResponse: the parsed value as it is, or the default when parsing throws
parseResponse(text, payload) ==
    LET parsed == ScreenJsonParse(text, payload)
    IN  IF parsed = None THEN ScreenDefault("Failed to parse AI response")
        ELSE parsed[1]

\* the value analyzeCurrentActivity resolves to
analyzeCurrentActivity(o) ==
    IF o.capture # "ok" \/ o.backend = "failed"
    THEN ScreenDefault("Analysis failed")
    ELSE parseResponse(IF o.backend = "noText" THEN <<>> ELSE o.text, o.payload)

\* whether %TEMP%\procrastination_check.png exists when analyzeCurrentActivity
\* resolves: Deno.remove is reached only after the backend has answered, and
\* its failure is ignored
screenshotExists(before, o) ==
    IF o.capture = "unsupported" THEN before
    ELSE IF o.capture = "failed" THEN before \/ o.written
    ELSE IF o.backend = "failed" THEN TRUE
    ELSE ~o.removeOk

NoAnalysis ==
    [called |-> FALSE,
     outcome |-> [capture |-> "ok", written |-> TRUE, backend |-> "ok",
                  removeOk |-> TRUE, text |-> <<>>, payload |-> EmptyScreenPayload],
     threw |-> FALSE,
     result |-> EmptyScreenPayload,
     file |-> FALSE]

(***************************************************************************)
(* ProductivityAgent                                                       *)
(***************************************************************************)
IsOpen(tok) == tok \in {"{", "J"}
IsClose(tok) == tok \in {"}", "J"}

\* response.match(/\{[\s\S]*\}/): from the first "{" to the last "}"
jsonMatch(text) ==
    LET opens == {i \in DOMAIN text : IsOpen(text[i])}
        closes == {i \in DOMAIN text : IsClose(text[i])}
    IN  IF opens = {} \/ closes = {} THEN None
        ELSE IF Min(opens) <= Max(closes)
             THEN Some(SubSeq(text, Min(opens), Max(closes)))
             ELSE None

\* JSON.parse of the matched text: None when it throws a SyntaxError
JsonParse(matched, payload) ==
    IF matched = <<"J">> THEN Some(payload)
    ELSE IF matched = <<"{", "}">> THEN Some(EmptyPayload(payload.intervention.timestamp))
    ELSE None

getDefaultDecision(t, seq) ==
    [shouldIntervene |-> FALSE,
     intervention |-> [kind |-> "object", type |-> "none", message |-> "",
                       timestamp |-> t, wasEffective |-> None, seq |-> seq],
     reasoning |-> "Failed to make decision, defaulting to no intervention",
     confidence |-> Some(0)]

\* "decision as AgentDecision": the parsed object itself, unchanged
AsAgentDecision(p, seq) ==
    [shouldIntervene |-> (p.shouldIntervene = "true"),
     intervention |-> [kind |-> p.intervention.kind, type |-> p.intervention.type,
                       message |-> p.intervention.message,
                       timestamp |-> p.intervention.timestamp,
                       wasEffective |-> None, seq |-> seq],
     reasoning |-> p.reasoning,
     confidence |-> p.confidence]

ValidStructure(p) ==
    /\ p.shouldIntervene \in {"true", "false"}
    /\ p.intervention.kind \notin {"absent", "falsy"}
    /\ p.reasoning \notin {"absent", "empty"}

parseAgentDecision(text, payload, t, seq) ==
    LET m == jsonMatch(text)
    IN  IF m = None THEN getDefaultDecision(t, seq)
        ELSE LET parsed == JsonParse(m[1], payload)
             IN  IF parsed = None THEN getDefaultDecision(t, seq)
                 ELSE IF ~ValidStructure(parsed[1]) THEN getDefaultDecision(t, seq)
                 ELSE AsAgentDecision(parsed[1], seq)

\* a faulty addToHistory: evicts the newest record instead of the oldest
addToHistory_dropNewest(history, intervention) ==
    LET pushed == Append(history, intervention)
    IN  IF Len(pushed) > maxHistorySize
        THEN SubSeq(pushed, 1, maxHistorySize)
        ELSE pushed

addToHistory(history, intervention) ==
    LET pushed == Append(history, intervention)
    IN  IF Len(pushed) > maxHistorySize THEN Tail(pushed) ELSE pushed

\* the decision decideIntervention returns for a backend response
DecisionFor(r, t, seq) ==
    IF r.failed THEN getDefaultDecision(t, seq)
    ELSE parseAgentDecision(r.text, r.payload, t, seq)

\* a faulty decideIntervention: returns the decision without storing it
HistoryAfterDecision_noAppend(history, decision) == history

\* the history decideIntervention leaves
HistoryAfterDecision(history, decision) ==
    IF decision.shouldIntervene
    THEN addToHistory(history, decision.intervention)
    ELSE history

\* "lastIntervention.wasEffective = ..." on a primitive throws a TypeError
\* (module code is strict)
recordThrows(history) ==
    Len(history) > 0 /\ history[Len(history)].kind = "primitive"

\* a faulty recordInterventionEffectiveness: scores the oldest record
recordInterventionEffectiveness_first(history, wasEffective) ==
    IF Len(history) > 0 /\ ~recordThrows(history)
    THEN [history EXCEPT ![1].wasEffective = Some(wasEffective)]
    ELSE history

recordInterventionEffectiveness(history, wasEffective) ==
    IF Len(history) > 0 /\ ~recordThrows(history)
    THEN [history EXCEPT ![Len(history)].wasEffective = Some(wasEffective)]
    ELSE history

(***************************************************************************)
(* Calls on a ProductivityAgent.                                           *)
(***************************************************************************)
AgentInit ==
    /\ interventionHistory = <<>>
    /\ lastDecision = None
    /\ lastCall = [op |-> "none", threw |-> FALSE, backend |-> FALSE, text |-> ""]
    /\ appended = 0

\* decideIntervention, from the backend's answer to the return
DecideIntervention(r) ==
    LET decision == DecisionFor(r, 0, appended + 1)
    IN  /\ interventionHistory' = HistoryAfterDecision(interventionHistory, decision)
        /\ lastDecision' = Some(decision)
        /\ lastCall' = [op |-> "decideIntervention", threw |-> FALSE, backend |-> TRUE, text |-> ""]
        /\ appended' = IF decision.shouldIntervene THEN appended + 1 ELSE appended

RecordInterventionEffectiveness(b) ==
    /\ interventionHistory' = recordInterventionEffectiveness(interventionHistory, b)
    /\ lastCall' = [op |-> "recordInterventionEffectiveness",
                    threw |-> recordThrows(interventionHistory), backend |-> FALSE, text |-> ""]
    /\ UNCHANGED <<lastDecision, appended>>

\* a faulty analyzeProductivityPatterns: three records are not enough
InsufficientData_upToThree(history) == Len(history) <= 3

\* analyzeProductivityPatterns: fewer than 3 records
InsufficientData(history) == Len(history) < 3

InsufficientDataMessage == "Not enough data yet to analyze patterns."

\* the texts the backend's analysis may consist of (an empty event stream
\* gives the empty text)
AnalysisTexts == {"", "analysis"}

\* analyzeProductivityPatterns; a failure of the backend is not caught
AnalyzeProductivityPatterns(failed, text) ==
    /\ lastCall' =
            IF InsufficientData(interventionHistory)
            THEN [op |-> "analyzeProductivityPatterns", threw |-> FALSE,
                  backend |-> FALSE, text |-> InsufficientDataMessage]
            ELSE [op |-> "analyzeProductivityPatterns", threw |-> failed,
                  backend |-> TRUE, text |-> IF failed THEN "" ELSE text]
    /\ UNCHANGED <<interventionHistory, lastDecision, appended>>

NoResponse == [failed |-> TRUE, text |-> <<>>, payload |-> EmptyPayload(0)]

(***************************************************************************)
(* MemorySystem                                                            *)
(*                                                                         *)
(* interventionEffectivenessRate is kept as the exact fraction num/den     *)
(* (the rounding of the program's binary floating point is not modelled).  *)
(* A property key of an hour map is the decimal text of the hour, a        *)
(* sequence of digits.  The clock counts seconds from a local midnight.    *)
(***************************************************************************)
\* String(n): the decimal digits of a natural number
RECURSIVE ToDecimal(_)
ToDecimal(n) == IF n < 10 THEN <<n>> ELSE Append(ToDecimal(n \div 10), n % 10)

\* parseInt / JSON.parse of the decimal digits of a natural number
RECURSIVE parseInt(_)
parseInt(digits) ==
    IF Len(digits) = 1 THEN digits[1]
    ELSE 10 * parseInt(SubSeq(digits, 1, Len(digits) - 1)) + digits[Len(digits)]

RECURSIVE Pow(_, _)
Pow(b, e) == IF e = 0 THEN 1 ELSE b * Pow(b, e - 1)

\* new Date(t).getHours()
getHours(t) == (t \div SecondsPerHour) % HoursPerDay

DefaultUserProfile(t) ==
    [productiveHoursMap |-> <<>>,
     unproductiveHoursMap |-> <<>>,
     interventionEffectivenessRate |-> [num |-> 1, den |-> 2],
     totalSessions |-> 0,
     productiveSessions |-> 0,
     totalInterventions |-> 0,
     lastUpdated |-> t]

\* the session startSession opens
NewSession(t) ==
    [startTime |-> t, endTime |-> None, wasProductive |-> TRUE,
     interventionsCount |-> 0, activitySummary |-> ""]

\* a faulty bucket update: map[hour] = 1, the earlier count is forgotten
IncrementBucket_overwrite(map, hour) ==
    LET key == ToDecimal(hour)
    IN  [k \in DOMAIN map \cup {key} |-> IF k = key THEN 1 ELSE map[k]]

\* map[hour] = (map[hour] || 0) + 1
IncrementBucket(map, hour) ==
    LET key == ToDecimal(hour)
    IN  IF key \in DOMAIN map
        THEN [map EXCEPT ![key] = @ + 1]
        ELSE [k \in DOMAIN map \cup {key} |-> IF k = key THEN 1 ELSE map[k]]

\* a faulty updateUserProfile: totalSessions counts unproductive sessions only
updateUserProfile_totalInElse(profile, session, t) ==
    LET hour == getHours(session.startTime)
    IN  IF session.wasProductive
        THEN [profile EXCEPT !.productiveSessions = @ + 1,
                             !.productiveHoursMap = IncrementBucket(@, hour),
                             !.lastUpdated = t]
        ELSE [profile EXCEPT !.unproductiveHoursMap = IncrementBucket(@, hour),
                             !.totalSessions = @ + 1,
                             !.lastUpdated = t]

\* a faulty updateUserProfile: keyed by the hour the session ended
updateUserProfile_endHour(profile, session, t) ==
    LET hour == getHours(session.endTime[1])
    IN  IF session.wasProductive
        THEN [profile EXCEPT !.productiveSessions = @ + 1,
                             !.productiveHoursMap = IncrementBucket(@, hour),
                             !.totalSessions = @ + 1,
                             !.lastUpdated = t]
        ELSE [profile EXCEPT !.unproductiveHoursMap = IncrementBucket(@, hour),
                             !.totalSessions = @ + 1,
                             !.lastUpdated = t]

updateUserProfile(profile, session, t) ==
    LET hour == getHours(session.startTime)
    IN  IF session.wasProductive
        THEN [profile EXCEPT !.productiveSessions = @ + 1,
                             !.productiveHoursMap = IncrementBucket(@, hour),
                             !.totalSessions = @ + 1,
                             !.lastUpdated = t]
        ELSE [profile EXCEPT !.unproductiveHoursMap = IncrementBucket(@, hour),
                             !.totalSessions = @ + 1,
                             !.lastUpdated = t]

\* a faulty cleanup: the first 100 sessions are kept
KeepLastSessions_dropNewest(ss) ==
    IF Len(ss) > MaxStoredSessions
    THEN SubSeq(ss, 1, MaxStoredSessions)
    ELSE ss

\* sessions.slice(-100) once the log holds more than 100 sessions
KeepLastSessions(ss) ==
    IF Len(ss) > MaxStoredSessions
    THEN SubSeq(ss, Len(ss) - MaxStoredSessions + 1, Len(ss))
    ELSE ss

\* endSession: the open session as it is pushed onto the log
EndedSession(session, wasProductive, summary, t) ==
    [session EXCEPT !.endTime = Some(t), !.wasProductive = wasProductive,
                    !.activitySummary = summary]

\* a faulty updateInterventionEffectiveness: the sample is not weighted
updateInterventionEffectiveness_unweighted(profile, wasEffective) ==
    LET rate == profile.interventionEffectivenessRate
        newValue == IF wasEffective THEN 1 ELSE 0
    IN  [profile EXCEPT !.interventionEffectivenessRate =
            [num |-> 5 * newValue * rate.den + 4 * rate.num, den |-> 5 * rate.den]]

\* a faulty updateInterventionEffectiveness: the weights are exchanged
updateInterventionEffectiveness_swapped(profile, wasEffective) ==
    LET rate == profile.interventionEffectivenessRate
        newValue == IF wasEffective THEN 1 ELSE 0
    IN  [profile EXCEPT !.interventionEffectivenessRate =
            [num |-> 4 * newValue * rate.den + rate.num, den |-> 5 * rate.den]]

\* a faulty updateInterventionEffectiveness: it also counts an intervention
updateInterventionEffectiveness_counting(profile, wasEffective) ==
    LET rate == profile.interventionEffectivenessRate
        newValue == IF wasEffective THEN 1 ELSE 0
    IN  [profile EXCEPT !.interventionEffectivenessRate =
            [num |-> newValue * rate.den + 4 * rate.num, den |-> 5 * rate.den],
                        !.totalInterventions = @ + 1]

\* updateInterventionEffectiveness: alpha * newValue + (1 - alpha) * rate, alpha = 1/5
updateInterventionEffectiveness(profile, wasEffective) ==
    LET rate == profile.interventionEffectivenessRate
        newValue == IF wasEffective THEN 1 ELSE 0
    IN  [profile EXCEPT !.interventionEffectivenessRate =
            [num |-> newValue * rate.den + 4 * rate.num, den |-> 5 * rate.den]]

\* a faulty Object.entries: the keys in descending order
ObjectEntries_descending(map) ==
    LET RECURSIVE entries(_)
        entries(keys) ==
            IF keys = {} THEN <<>>
            ELSE LET last == CHOOSE k \in keys :
                                \A j \in keys : parseInt(k) >= parseInt(j)
                 IN  <<[key |-> last, count |-> map[last]]>> \o entries(keys \ {last})
    IN  entries(DOMAIN map)

\* Object.entries(map): the keys of an hour map are integer indices, which
\* are enumerated in ascending numeric order whatever order they were
\* created in
ObjectEntries(map) ==
    LET RECURSIVE entries(_)
        entries(keys) ==
            IF keys = {} THEN <<>>
            ELSE LET first == CHOOSE k \in keys :
                                \A j \in keys : parseInt(k) <= parseInt(j)
                 IN  <<[key |-> first, count |-> map[first]]>> \o entries(keys \ {first})
    IN  entries(DOMAIN map)

\* .sort(([, a], [, b]) => b - a): a stable sort by descending count
RECURSIVE InsertByCount(_, _)
InsertByCount(sorted, entry) ==
    IF sorted = <<>> THEN <<entry>>
    ELSE IF Head(sorted).count >= entry.count
         THEN <<Head(sorted)>> \o InsertByCount(Tail(sorted), entry)
         ELSE <<entry>> \o sorted

RECURSIVE SortByCount(_)
SortByCount(entries) ==
    IF entries = <<>> THEN <<>>
    ELSE InsertByCount(SortByCount(SubSeq(entries, 1, Len(entries) - 1)),
                       entries[Len(entries)])

\* getTopProductiveHours / getTopUnproductiveHours on their map, n >= 0
getTopHours(map, n) ==
    LET sorted == SortByCount(ObjectEntries(map))
        top == SubSeq(sorted, 1, Min({n, Len(sorted)}))
    IN  [i \in 1..Len(top) |-> parseInt(top[i].key)]

(***************************************************************************)
(* The memory file.  JSON.stringify writes every number in decimal: a      *)
(* natural number as its digits, the rate as the shortest decimal          *)
(* fraction, digits / 10^places; a member whose value is undefined is      *)
(* left out.  A file is absent (None) or has a content: text that is not   *)
(* JSON (valid = FALSE) or a JSON object whose members sessions and        *)
(* userProfile may be missing.                                             *)
(***************************************************************************)
\* the decimal places the rate needs
RECURSIVE DecimalPlaces(_, _)
DecimalPlaces(num, den) ==
    IF num % den = 0 THEN 0 ELSE 1 + DecimalPlaces(10 * num, den)

StringifyRate(rate) ==
    LET places == DecimalPlaces(rate.num, rate.den)
    IN  [digits |-> ToDecimal((rate.num * Pow(10, places)) \div rate.den),
         places |-> places]

ParseRate(text) == [num |-> parseInt(text.digits), den |-> Pow(10, text.places)]

StringifySession(s) ==
    [startTime |-> ToDecimal(s.startTime),
     endTime |-> IF s.endTime = None THEN None ELSE Some(ToDecimal(s.endTime[1])),
     wasProductive |-> s.wasProductive,
     interventionsCount |-> ToDecimal(s.interventionsCount),
     activitySummary |-> s.activitySummary]

ParseSession(j) ==
    [startTime |-> parseInt(j.startTime),
     endTime |-> IF j.endTime = None THEN None ELSE Some(parseInt(j.endTime[1])),
     wasProductive |-> j.wasProductive,
     interventionsCount |-> parseInt(j.interventionsCount),
     activitySummary |-> j.activitySummary]

StringifyProfile(p) ==
    [productiveHoursMap |->
        [k \in DOMAIN p.productiveHoursMap |-> ToDecimal(p.productiveHoursMap[k])],
     unproductiveHoursMap |->
        [k \in DOMAIN p.unproductiveHoursMap |-> ToDecimal(p.unproductiveHoursMap[k])],
     interventionEffectivenessRate |-> StringifyRate(p.interventionEffectivenessRate),
     totalSessions |-> ToDecimal(p.totalSessions),
     productiveSessions |-> ToDecimal(p.productiveSessions),
     totalInterventions |-> ToDecimal(p.totalInterventions),
     lastUpdated |-> ToDecimal(p.lastUpdated)]

ParseProfile(j) ==
    [productiveHoursMap |->
        [k \in DOMAIN j.productiveHoursMap |-> parseInt(j.productiveHoursMap[k])],
     unproductiveHoursMap |->
        [k \in DOMAIN j.unproductiveHoursMap |-> parseInt(j.unproductiveHoursMap[k])],
     interventionEffectivenessRate |-> ParseRate(j.interventionEffectivenessRate),
     totalSessions |-> parseInt(j.totalSessions),
     productiveSessions |-> parseInt(j.productiveSessions),
     totalInterventions |-> parseInt(j.totalInterventions),
     lastUpdated |-> parseInt(j.lastUpdated)]

\* a faulty save: the document lacks the profile
MemoryDocument_noProfile(ss, profile) ==
    [valid |-> TRUE,
     sessions |-> Some([i \in 1..Len(ss) |-> StringifySession(ss[i])]),
     userProfile |-> None]

\* save(): JSON.stringify({sessions, userProfile})
MemoryDocument(ss, profile) ==
    [valid |-> TRUE,
     sessions |-> Some([i \in 1..Len(ss) |-> StringifySession(ss[i])]),
     userProfile |-> Some(StringifyProfile(profile))]

\* a file that holds no JSON, and the file "{}"
CorruptFile == [valid |-> FALSE, sessions |-> None, userProfile |-> None]
EmptyObjectFile == [valid |-> TRUE, sessions |-> None, userProfile |-> None]

\* load(): readTextFile or JSON.parse throws, and the catch block only logs
loadFails(file, readOk) == file = None \/ ~readOk \/ ~file[1].valid

\* a faulty save: the catch block does not rethrow
saveThrows_swallowed(writeOk) == FALSE

\* save() rethrows the error of writeTextFile
saveThrows(writeOk) == ~writeOk

\* the sessions and the profile load() leaves in a store holding ss and profile
load(file, readOk, ss, profile) ==
    IF loadFails(file, readOk)
    THEN [sessions |-> ss, userProfile |-> profile]
    ELSE [sessions |->
            IF file[1].sessions = None THEN <<>>
            ELSE [i \in 1..Len(file[1].sessions[1]) |->
                    ParseSession(file[1].sessions[1][i])],
          userProfile |->
            IF file[1].userProfile = None THEN profile
            ELSE ParseProfile(file[1].userProfile[1])]

(***************************************************************************)
(* The state the constructors leave: no timer armed, no event loop, no     *)
(* session, no memory file.                                                *)
(***************************************************************************)
NoCallbacks == [onIdleDetected |-> 0, onActivityDetected |-> 0]

\* what a call on the store did: whether it threw, whether it wrote the file
\* ("none", "ok" or "failed"), whether it read a document from the file,
\* whether a session was open when it was made, and the argument and the
\* result of a query
MemoryCallFrom(op, threw, write, loaded, open) ==
    [op |-> op, threw |-> threw, write |-> write, loaded |-> loaded,
     open |-> open, n |-> 0, hours |-> <<>>]
MemoryCall(op, threw, write, loaded) ==
    MemoryCallFrom(op, threw, write, loaded, currentSession # None)
MemoryQuery(op, n, hours) ==
    [op |-> op, threw |-> FALSE, write |-> "none", loaded |-> FALSE,
     open |-> currentSession # None, n |-> n, hours |-> hours]
NoMemoryCall == MemoryCallFrom("none", FALSE, "none", FALSE, FALSE)

\* the rate was set by the constructor or by load: no sample since
StartingRate(profile) ==
    [r0 |-> profile.interventionEffectivenessRate, samples |-> <<>>]

NoCycle == [pc |-> "new", decision |-> None, recentInterventions |-> <<>>,
            write |-> None]
DoneCycle == [NoCycle EXCEPT !.pc = "done"]

DetectorConstructed ==
    /\ lastActivityTime = now
    /\ isIdle = FALSE
    /\ idleCheckInterval = FALSE
    /\ listening = FALSE
    /\ callbacks = NoCallbacks
    /\ alarmActive = FALSE
    /\ lastInterventionTime = 0
    /\ executed = <<>>
    /\ screenCheckInterval = FALSE
    /\ cycles = [c \in 1..MaxCycles |-> NoCycle]

MemoryConstructed ==
    /\ sessions = <<>>
    /\ currentSession = None
    /\ userProfile = DefaultUserProfile(now)
    /\ lastMemoryCall = NoMemoryCall
    /\ ema = StartingRate(DefaultUserProfile(now))

Constructed ==
    /\ now = 0
    /\ DetectorConstructed
    /\ MemoryConstructed
    /\ disk = None
    /\ writeFailures = 0

restVars == <<now, monitorVars, detectorVars, memoryVars>>

(***************************************************************************)
(* SpecParse: one decideIntervention call on a fresh agent, for every      *)
(* backend response over the bounded texts and payloads.                   *)
(***************************************************************************)
InitParse ==
    /\ AgentInit
    /\ response \in Responses(0)
    /\ lastAnalysis = NoAnalysis
    /\ Constructed

ParseCall ==
    /\ lastCall.op = "none"
    /\ DecideIntervention(response)
    /\ UNCHANGED <<response, lastAnalysis, restVars>>

NextParse == ParseCall

SpecParse == InitParse /\ [][NextParse]_vars

(***************************************************************************)
(* SpecScreen: analyzeCurrentActivity, for every outcome of the capture    *)
(* and every reply of the vision backend over the bounded texts and        *)
(* payloads.                                                               *)
(***************************************************************************)
InitScreen ==
    /\ AgentInit
    /\ response = NoResponse
    /\ lastAnalysis = NoAnalysis
    /\ Constructed

\* analyzeCurrentActivity: every statement is inside the outer try block
AnalyzeCurrentActivity(o) ==
    /\ lastAnalysis' = [called |-> TRUE, outcome |-> o, threw |-> FALSE,
                        result |-> analyzeCurrentActivity(o),
                        file |-> screenshotExists(lastAnalysis.file, o)]
    /\ UNCHANGED <<agentVars, response, restVars>>

NextScreen == \E o \in ScreenOutcomes : AnalyzeCurrentActivity(o)

SpecScreen == InitScreen /\ [][NextScreen]_vars

(***************************************************************************)
(* SpecAgent: any sequence of calls on one agent, the backend answering    *)
(* with one of a few representative responses.                             *)
(***************************************************************************)
Answer(si, kind, type) ==
    [failed |-> FALSE, text |-> <<"J">>,
     payload |-> [shouldIntervene |-> si,
                  intervention |-> [kind |-> kind, type |-> type,
                                    message |-> "msg", timestamp |-> 0],
                  reasoning |-> "text", confidence |-> Some(100)]]

AgentResponses ==
    {NoResponse,
     Answer("true", "object", "alarm"),
     Answer("true", "object", "none"),
     Answer("true", "primitive", "undefined"),
     Answer("false", "object", "none")}

InitAgent ==
    /\ AgentInit
    /\ response = NoResponse
    /\ lastAnalysis = NoAnalysis
    /\ Constructed

AgentDecide ==
    /\ appended < MaxCalls
    /\ \E r \in AgentResponses : DecideIntervention(r)
    /\ UNCHANGED <<response, lastAnalysis, restVars>>

AgentRecord ==
    /\ \E b \in BOOLEAN : RecordInterventionEffectiveness(b)
    /\ UNCHANGED <<response, lastAnalysis, restVars>>

AgentAnalyze ==
    /\ \E failed \in BOOLEAN, text \in AnalysisTexts :
            AnalyzeProductivityPatterns(failed, text)
    /\ UNCHANGED <<response, lastAnalysis, restVars>>

NextAgent == AgentDecide \/ AgentRecord \/ AgentAnalyze

SpecAgent == InitAgent /\ [][NextAgent]_vars

(***************************************************************************)
(* SpecHistory: long runs of one agent, the backend either asking for an   *)
(* alarm or declining.                                                     *)
(***************************************************************************)
HistoryResponses ==
    {Answer("true", "object", "alarm"), Answer("false", "object", "none")}

HistoryDecide ==
    /\ appended < MaxAppends
    /\ \E r \in HistoryResponses : DecideIntervention(r)
    /\ UNCHANGED <<response, lastAnalysis, restVars>>

NextHistory == HistoryDecide \/ AgentRecord

SpecHistory == InitAgent /\ [][NextHistory]_vars

(***************************************************************************)
(* SpecMemory: any sequence of calls on a MemorySystem.  The run starts    *)
(* with a new store at 23:00; the memory file is absent,    *)
(* holds no JSON or holds "{}", and from then on only the store writes it. *)
(* A call runs to its end before the next one starts.                      *)
(***************************************************************************)
StartTimes == {(HoursPerDay - 1) * SecondsPerHour}

EndSummary == "Session ended by user"

InitMemory ==
    /\ AgentInit
    /\ response = NoResponse
    /\ lastAnalysis = NoAnalysis
    /\ now \in StartTimes
    /\ DetectorConstructed
    /\ MemoryConstructed
    /\ disk \in {None, Some(CorruptFile), Some(EmptyObjectFile)}
    /\ writeFailures = 0

otherVars == <<agentVars, response, lastAnalysis, monitorVars, detectorVars>>

\* an hour passes
HourPasses ==
    /\ \E start \in StartTimes :
        /\ now >= start
        /\ now + SecondsPerHour <= start + MaxHours * SecondsPerHour
    /\ now' = now + SecondsPerHour
    /\ lastMemoryCall' = NoMemoryCall
    /\ UNCHANGED <<otherVars, sessions, currentSession, userProfile, disk,
                   writeFailures, ema>>

\* the rate after load(): read from the file, or left as it was
EmaAfterLoad(readOk, profile) ==
    IF loadFails(disk, readOk) \/ disk[1].userProfile = None
    THEN ema
    ELSE StartingRate(profile)

\* load() on the store in use
Load(readOk) ==
    LET loaded == load(disk, readOk, sessions, userProfile)
    IN  /\ sessions' = loaded.sessions
        /\ userProfile' = loaded.userProfile
        /\ ema' = EmaAfterLoad(readOk, loaded.userProfile)
        /\ lastMemoryCall' = MemoryCall("load", FALSE, "none", ~loadFails(disk, readOk))
        /\ UNCHANGED <<otherVars, now, currentSession, disk, writeFailures>>

\* new MemorySystem() followed by load(), as initialize() does
NewStoreLoad(readOk) ==
    LET loaded == load(disk, readOk, <<>>, DefaultUserProfile(now))
    IN  /\ sessions' = loaded.sessions
        /\ userProfile' = loaded.userProfile
        /\ currentSession' = None
        /\ ema' = StartingRate(loaded.userProfile)
        /\ lastMemoryCall' =
                MemoryCallFrom("loadFresh", FALSE, "none",
                               ~loadFails(disk, readOk), FALSE)
        /\ UNCHANGED <<otherVars, now, disk, writeFailures>>

\* save() of the sessions ss and the profile, called by op
SaveAs(op, ss, profile, writeOk) ==
    /\ writeOk \/ writeFailures < MaxWriteFailures
    /\ disk' = IF writeOk THEN Some(MemoryDocument(ss, profile)) ELSE disk
    /\ writeFailures' = IF writeOk THEN writeFailures ELSE writeFailures + 1
    /\ lastMemoryCall' = MemoryCall(op, saveThrows(writeOk),
                                    IF writeOk THEN "ok" ELSE "failed", FALSE)

Save(writeOk) ==
    /\ SaveAs("save", sessions, userProfile, writeOk)
    /\ UNCHANGED <<otherVars, now, sessions, currentSession, userProfile, ema>>

\* a faulty startSession: a session that is still open is put on the log
StartSession_keepsOpen(writeOk) ==
    LET ss == IF currentSession = None THEN sessions
              ELSE Append(sessions, currentSession[1])
    IN  /\ currentSession' = Some(NewSession(now))
        /\ sessions' = ss
        /\ SaveAs("startSession", ss, userProfile, writeOk)
        /\ UNCHANGED <<otherVars, now, userProfile, ema>>

StartSession(writeOk) ==
    /\ currentSession' = Some(NewSession(now))
    /\ SaveAs("startSession", sessions, userProfile, writeOk)
    /\ UNCHANGED <<otherVars, now, sessions, userProfile, ema>>

\* a faulty endSession: with no session open it still saves
CloseSession_savesAnyway(wasProductive, writeOk) ==
    /\ IF currentSession = None
       THEN /\ SaveAs("endSession", sessions, userProfile, writeOk)
            /\ UNCHANGED <<sessions, currentSession, userProfile>>
       ELSE LET session == EndedSession(currentSession[1], wasProductive,
                                       EndSummary, now)
                ss == KeepLastSessions(Append(sessions, session))
                profile == updateUserProfile(userProfile, session, now)
            IN  /\ sessions' = ss
                /\ userProfile' = profile
                /\ currentSession' = None
                /\ SaveAs("endSession", ss, profile, writeOk)
    /\ UNCHANGED <<otherVars, now, ema>>

\* endSession(wasProductive, EndSummary)
CloseSession(wasProductive, writeOk) ==
    /\ IF currentSession = None
       THEN /\ lastMemoryCall' = MemoryCall("endSession", FALSE, "none", FALSE)
            /\ UNCHANGED <<sessions, currentSession, userProfile, disk, writeFailures>>
       ELSE LET session == EndedSession(currentSession[1], wasProductive,
                                       EndSummary, now)
                ss == KeepLastSessions(Append(sessions, session))
                profile == updateUserProfile(userProfile, session, now)
            IN  /\ sessions' = ss
                /\ userProfile' = profile
                /\ currentSession' = None
                /\ SaveAs("endSession", ss, profile, writeOk)
    /\ UNCHANGED <<otherVars, now, ema>>

EndSession(wasProductive, writeOk) ==
    /\ currentSession # None => userProfile.totalSessions < MaxSessions
    /\ CloseSession(wasProductive, writeOk)

MemRecordIntervention(writeOk) ==
    /\ IF currentSession = None
       THEN /\ lastMemoryCall' = MemoryCall("recordIntervention", FALSE, "none", FALSE)
            /\ UNCHANGED <<currentSession, userProfile, disk, writeFailures>>
       ELSE LET profile == [userProfile EXCEPT !.totalInterventions = @ + 1]
            IN  /\ userProfile.totalInterventions < MaxInterventions
                /\ currentSession' =
                        Some([currentSession[1] EXCEPT !.interventionsCount = @ + 1])
                /\ userProfile' = profile
                /\ SaveAs("recordIntervention", sessions, profile, writeOk)
    /\ UNCHANGED <<otherVars, now, sessions, ema>>

UpdateInterventionEffectiveness(wasEffective) ==
    /\ 5 * userProfile.interventionEffectivenessRate.den <= MaxRateDen
    /\ userProfile' = updateInterventionEffectiveness(userProfile, wasEffective)
    /\ ema' = [ema EXCEPT !.samples = Append(@, wasEffective)]
    /\ lastMemoryCall' =
            MemoryCall("updateInterventionEffectiveness", FALSE, "none", FALSE)
    /\ UNCHANGED <<otherVars, now, sessions, currentSession, disk, writeFailures>>

NextMemory ==
    \/ HourPasses
    \/ \E readOk \in BOOLEAN : Load(readOk)
    \/ \E readOk \in BOOLEAN : NewStoreLoad(readOk)
    \/ \E writeOk \in BOOLEAN : Save(writeOk)
    \/ \E writeOk \in BOOLEAN : StartSession(writeOk)
    \/ \E wasProductive \in BOOLEAN, writeOk \in BOOLEAN :
            EndSession(wasProductive, writeOk)
    \/ \E writeOk \in BOOLEAN : MemRecordIntervention(writeOk)
    \/ \E wasEffective \in BOOLEAN : UpdateInterventionEffectiveness(wasEffective)

SpecMemory == InitMemory /\ [][NextMemory]_vars

(***************************************************************************)
(* SpecRate: a new store, and any sequence of effectiveness samples.       *)
(***************************************************************************)
RateSample(wasEffective) ==
    /\ Len(ema.samples) < MaxSamples
    /\ userProfile' = updateInterventionEffectiveness(userProfile, wasEffective)
    /\ ema' = [ema EXCEPT !.samples = Append(@, wasEffective)]
    /\ lastMemoryCall' =
            MemoryCall("updateInterventionEffectiveness", FALSE, "none", FALSE)
    /\ UNCHANGED <<otherVars, now, sessions, currentSession, disk, writeFailures>>

NextRate == \E wasEffective \in BOOLEAN : RateSample(wasEffective)

SpecRate == InitMemory /\ [][NextRate]_vars

(***************************************************************************)
(* SpecTopHours: the top-hours queries on a store whose profile holds any  *)
(* two histograms over a few hours of the day.                             *)
(***************************************************************************)
HourSample == {2, 10, 23}

\* the histograms over the sample: an hour has no bucket or a count of 1..MaxCount
Histograms ==
    UNION {[{ToDecimal(h) : h \in hours} -> 1..MaxCount] : hours \in SUBSET HourSample}

RECURSIVE SumOfCounts(_)
SumOfCounts(map) ==
    IF DOMAIN map = {} THEN 0
    ELSE LET k == CHOOSE k \in DOMAIN map : TRUE
         IN  map[k] + SumOfCounts([j \in DOMAIN map \ {k} |-> map[j]])

InitTopHours ==
    /\ AgentInit
    /\ response = NoResponse
    /\ lastAnalysis = NoAnalysis
    /\ now \in StartTimes
    /\ DetectorConstructed
    /\ sessions = <<>>
    /\ currentSession = None
    /\ \E productive \in Histograms, unproductive \in Histograms :
        userProfile =
            [DefaultUserProfile(now) EXCEPT
                !.productiveHoursMap = productive,
                !.unproductiveHoursMap = unproductive,
                !.productiveSessions = SumOfCounts(productive),
                !.totalSessions = SumOfCounts(productive) + SumOfCounts(unproductive)]
    /\ lastMemoryCall = NoMemoryCall
    /\ ema = StartingRate(userProfile)
    /\ disk = None
    /\ writeFailures = 0

GetTopProductiveHours(n) ==
    /\ lastMemoryCall' = MemoryQuery("getTopProductiveHours", n,
                                     getTopHours(userProfile.productiveHoursMap, n))
    /\ UNCHANGED <<otherVars, now, sessions, currentSession, userProfile, disk,
                   writeFailures, ema>>

GetTopUnproductiveHours(n) ==
    /\ lastMemoryCall' = MemoryQuery("getTopUnproductiveHours", n,
                                     getTopHours(userProfile.unproductiveHoursMap, n))
    /\ UNCHANGED <<otherVars, now, sessions, currentSession, userProfile, disk,
                   writeFailures, ema>>

NextTopHours ==
    \/ \E n \in 0..MaxTop : GetTopProductiveHours(n)
    \/ \E n \in 0..MaxTop : GetTopUnproductiveHours(n)

SpecTopHours == InitTopHours /\ [][NextTopHours]_vars

(***************************************************************************)
(* SpecLog: a store that has loaded the file an earlier run left, with a   *)
(* session log that is full or one short of it: the sessions of that run   *)
(* were opened and closed as productive second by second after midnight.   *)
(* Sessions are opened and closed on top of it.                            *)
(***************************************************************************)
EarlierSession(i) ==
    [startTime |-> i, endTime |-> Some(i), wasProductive |-> TRUE,
     interventionsCount |-> 0, activitySummary |-> EndSummary]

EarlierLog(n) == [i \in 1..n |-> EarlierSession(i)]

\* the profile after the n sessions of the earlier run
EarlierProfile(n) ==
    [DefaultUserProfile(n) EXCEPT
        !.productiveHoursMap = [k \in {ToDecimal(getHours(n))} |-> n],
        !.productiveSessions = n,
        !.totalSessions = n]

LogSizes == {MaxStoredSessions - 1, MaxStoredSessions}

InitLog ==
    /\ AgentInit
    /\ response = NoResponse
    /\ lastAnalysis = NoAnalysis
    /\ now \in StartTimes
    /\ DetectorConstructed
    /\ \E n \in LogSizes :
        /\ sessions = EarlierLog(n)
        /\ userProfile = EarlierProfile(n)
    /\ currentSession = None
    /\ disk = Some(MemoryDocument(sessions, userProfile))
    /\ writeFailures = 0
    /\ lastMemoryCall = MemoryCallFrom("loadFresh", FALSE, "none", TRUE, FALSE)
    /\ ema = StartingRate(userProfile)

LogEndSession(wasProductive, writeOk) ==
    /\ currentSession # None =>
            userProfile.totalSessions < MaxStoredSessions + MaxCloses
    /\ CloseSession(wasProductive, writeOk)

NextLog ==
    \/ HourPasses
    \/ \E writeOk \in BOOLEAN : StartSession(writeOk)
    \/ \E wasProductive \in BOOLEAN, writeOk \in BOOLEAN :
            LogEndSession(wasProductive, writeOk)

SpecLog == InitLog /\ [][NextLog]_vars

(***************************************************************************)
(* SpecDetector: AgentBasedDetector after initialize() and start(): the    *)
(* memory file was absent, the session is open and saved, both timers are  *)
(* armed and the gkm event loop runs.  The immediate runAgentCheck of      *)
(* startPeriodicAgentCheck is a first RunAgentCheck step.                  *)
(*                                                                         *)
(* A runAgentCheck invocation is suspended at its awaits, and anything     *)
(* else may run there:                                                     *)
(*   "screen"   in buildAgentContext, awaiting analyzeCurrentActivity      *)
(*   "backend"  in decideIntervention, awaiting the backend's events       *)
(*   "decided"  decideIntervention has returned, runAgentCheck not resumed *)
(*   "executed" executeIntervention has returned, runAgentCheck not resumed*)
(*   "saving"   in recordIntervention's save, awaiting writeTextFile       *)
(***************************************************************************)
DetectorResponses ==
    {NoResponse,
     Answer("true", "object", "alarm"),
     Answer("true", "object", "none"),
     Answer("true", "primitive", "undefined"),
     Answer("false", "object", "none")}

InitDetector ==
    /\ AgentInit
    /\ response = NoResponse
    /\ lastAnalysis = NoAnalysis
    /\ now = 0
    /\ lastActivityTime = 0
    /\ isIdle = FALSE
    /\ idleCheckInterval = TRUE
    /\ listening = TRUE
    /\ callbacks = NoCallbacks
    /\ alarmActive = FALSE
    /\ lastInterventionTime = 0
    /\ executed = <<>>
    /\ screenCheckInterval = TRUE
    /\ cycles = [c \in 1..MaxCycles |-> NoCycle]
    /\ sessions = <<>>
    /\ currentSession = Some(NewSession(0))
    /\ userProfile = DefaultUserProfile(0)
    /\ disk = Some(MemoryDocument(<<>>, DefaultUserProfile(0)))
    /\ writeFailures = 0
    /\ lastMemoryCall = MemoryCallFrom("startSession", FALSE, "ok", FALSE, FALSE)
    /\ ema = StartingRate(DefaultUserProfile(0))

\* time passes
Tick ==
    /\ now + TimeStep <= MaxTime
    /\ now' = now + TimeStep
    /\ UNCHANGED <<agentVars, response, lastAnalysis, monitorVars, detectorVars, memoryVars>>

getIdleTimeSeconds == now - lastActivityTime

\* a faulty interval callback: it does not look at isIdle
IdleCheck_levelTriggered ==
    /\ idleCheckInterval
    /\ getIdleTimeSeconds >= idleThresholdSeconds
    /\ isIdle' = TRUE
    /\ callbacks' = [callbacks EXCEPT !.onIdleDetected = @ + 1]
    /\ UNCHANGED <<agentVars, response, lastAnalysis, now, lastActivityTime, idleCheckInterval,
                   listening, detectorVars, memoryVars>>

\* the interval callback of startIdleCheck, when it finds the threshold crossed
\* (otherwise it changes nothing); handleIdleDetected only logs
IdleCheck ==
    /\ idleCheckInterval
    /\ getIdleTimeSeconds >= idleThresholdSeconds /\ ~isIdle
    /\ isIdle' = TRUE
    /\ callbacks' = [callbacks EXCEPT !.onIdleDetected = @ + 1]
    /\ UNCHANGED <<agentVars, response, lastAnalysis, now, lastActivityTime, idleCheckInterval,
                   listening, detectorVars, memoryVars>>

\* handleActivityDetected throws when recordInterventionEffectiveness does
handleActivityThrows == alarmActive /\ recordThrows(interventionHistory)

\* a faulty recordActivity: it counts every event as a resume and invokes
\* onActivityDetected without looking at isIdle
ActivityEvent_everyEvent ==
    /\ listening
    /\ lastActivityTime' = now
    /\ isIdle' = FALSE
    /\ callbacks' = [callbacks EXCEPT !.onActivityDetected = @ + 1]
    /\ UNCHANGED <<lastDecision, appended, response, lastAnalysis, now, idleCheckInterval,
                   lastInterventionTime, executed,
                   screenCheckInterval, cycles,
                   sessions, currentSession, disk, writeFailures>>
    /\ IF alarmActive
       THEN LET timeToResume == now - lastInterventionTime
                wasEffective == timeToResume < EffectiveWithinSeconds
            IN  /\ interventionHistory' =
                        recordInterventionEffectiveness(interventionHistory, wasEffective)
                /\ lastCall' = [op |-> "recordInterventionEffectiveness",
                                threw |-> recordThrows(interventionHistory),
                                backend |-> FALSE, text |-> ""]
                /\ IF handleActivityThrows
                   THEN /\ listening' = FALSE
                        /\ UNCHANGED <<userProfile, lastMemoryCall, ema, alarmActive>>
                   ELSE /\ userProfile' =
                                updateInterventionEffectiveness(userProfile, wasEffective)
                        /\ lastMemoryCall' =
                                MemoryCall("updateInterventionEffectiveness", FALSE, "none", FALSE)
                        /\ ema' = [ema EXCEPT !.samples = Append(@, wasEffective)]
                        /\ alarmActive' = FALSE
                        /\ UNCHANGED listening
       ELSE UNCHANGED <<interventionHistory, lastCall, listening, userProfile,
                        lastMemoryCall, ema, alarmActive>>

\* a gkm event: recordActivity, which calls handleActivityDetected when the
\* monitor was idle; an exception ends the event loop of ActivityMonitor.start
ActivityEvent ==
    /\ listening
    /\ lastActivityTime' = now
    /\ isIdle' = FALSE
    /\ callbacks' = IF isIdle
                    THEN [callbacks EXCEPT !.onActivityDetected = @ + 1]
                    ELSE callbacks
    /\ UNCHANGED <<lastDecision, appended, response, lastAnalysis, now, idleCheckInterval,
                   lastInterventionTime, executed,
                   screenCheckInterval, cycles,
                   sessions, currentSession, disk, writeFailures>>
    /\ IF isIdle /\ alarmActive
       THEN LET timeToResume == now - lastInterventionTime
                wasEffective == timeToResume < EffectiveWithinSeconds
            IN  /\ interventionHistory' =
                        recordInterventionEffectiveness(interventionHistory, wasEffective)
                /\ lastCall' = [op |-> "recordInterventionEffectiveness",
                                threw |-> recordThrows(interventionHistory),
                                backend |-> FALSE, text |-> ""]
                /\ IF handleActivityThrows
                   THEN /\ listening' = FALSE
                        /\ UNCHANGED <<userProfile, lastMemoryCall, ema, alarmActive>>
                   ELSE /\ userProfile' =
                                updateInterventionEffectiveness(userProfile, wasEffective)
                        /\ lastMemoryCall' =
                                MemoryCall("updateInterventionEffectiveness", FALSE, "none", FALSE)
                        /\ ema' = [ema EXCEPT !.samples = Append(@, wasEffective)]
                        /\ alarmActive' = FALSE
                        /\ UNCHANGED listening
       ELSE UNCHANGED <<interventionHistory, lastCall, listening, userProfile,
                        lastMemoryCall, ema, alarmActive>>

\* the interval callback of startPeriodicAgentCheck: runAgentCheck up to the
\* await of analyzeCurrentActivity in buildAgentContext
RunAgentCheck ==
    /\ screenCheckInterval
    /\ \E c \in 1..MaxCycles :
        /\ cycles[c].pc = "new"
        /\ \A d \in 1..(c - 1) : cycles[d].pc # "new"
        /\ cycles' = [cycles EXCEPT ![c].pc = "screen"]
    /\ UNCHANGED <<agentVars, response, lastAnalysis, now, monitorVars, alarmActive,
                   lastInterventionTime, executed,
                   screenCheckInterval, memoryVars>>

\* analyzeCurrentActivity resolves (it never rejects): buildAgentContext reads
\* the history and the profile, and decideIntervention starts the backend task
ContextBuilt(c) ==
    /\ cycles[c].pc = "screen"
    /\ cycles' = [cycles EXCEPT ![c].pc = "backend",
                                ![c].recentInterventions = interventionHistory]
    /\ UNCHANGED <<agentVars, response, lastAnalysis, now, monitorVars, alarmActive,
                   lastInterventionTime, executed,
                   screenCheckInterval, memoryVars>>

\* the backend's events end or fail: decideIntervention parses, appends and returns
\* (the cycle keeps the decision it got; only its type is read afterwards)
DecisionReturned(c, r) ==
    LET decision == DecisionFor(r, now, appended + 1)
    IN  /\ cycles[c].pc = "backend"
        /\ interventionHistory' = HistoryAfterDecision(interventionHistory, decision)
        /\ appended' = IF decision.shouldIntervene THEN appended + 1 ELSE appended
        /\ lastDecision' = Some(decision)
        /\ lastCall' = [op |-> "decideIntervention", threw |-> FALSE, backend |-> TRUE, text |-> ""]
        /\ cycles' = [cycles EXCEPT ![c] =
                        [NoCycle EXCEPT !.pc = "decided", !.decision = Some(decision)]]
        /\ UNCHANGED <<response, lastAnalysis, now, monitorVars, alarmActive,
                       lastInterventionTime, executed,
                       screenCheckInterval, memoryVars>>

\* a faulty runAgentCheck: it executes whatever decision it gets
ShouldExecute_unguarded(decision) == TRUE

\* the guard of runAgentCheck before it executes a decision
ShouldExecute(decision) ==
    decision.shouldIntervene /\ decision.intervention.type # "none"

\* runAgentCheck resumes with the decision and calls executeIntervention
ExecuteDecision(c) ==
    /\ cycles[c].pc = "decided"
    /\ IF ShouldExecute(cycles[c].decision[1])
       THEN /\ alarmActive' = TRUE
            /\ lastInterventionTime' = now
            /\ executed' = Append(executed, cycles[c].decision[1].intervention.seq)
            /\ cycles' = [cycles EXCEPT ![c].pc = "executed"]
       ELSE /\ cycles' = [cycles EXCEPT ![c] = DoneCycle]
            /\ UNCHANGED <<alarmActive, lastInterventionTime, executed>>
    /\ UNCHANGED <<agentVars, response, lastAnalysis, now, monitorVars, screenCheckInterval,
                   memoryVars>>

\* runAgentCheck resumes after executeIntervention: memorySystem.recordIntervention
\* counts the intervention and calls save, which serialises the document
RecordIntervention(c) ==
    /\ cycles[c].pc = "executed"
    /\ IF currentSession # None
       THEN LET session == [currentSession[1] EXCEPT
                                !.interventionsCount = @ + 1]
                profile == [userProfile EXCEPT !.totalInterventions = @ + 1]
            IN  /\ currentSession' = Some(session)
                /\ userProfile' = profile
                /\ cycles' = [cycles EXCEPT ![c].pc = "saving",
                                ![c].write = Some(MemoryDocument(sessions, profile))]
                /\ UNCHANGED lastMemoryCall
       ELSE /\ cycles' = [cycles EXCEPT ![c] = DoneCycle]
            /\ lastMemoryCall' = MemoryCall("recordIntervention", FALSE, "none", FALSE)
            /\ UNCHANGED <<currentSession, userProfile>>
    /\ UNCHANGED <<agentVars, response, lastAnalysis, now, monitorVars, alarmActive,
                   lastInterventionTime, executed,
                   screenCheckInterval, sessions, disk,
                   writeFailures, ema>>

\* a faulty runAgentCheck without its catch block: the error save rethrows is
\* an unhandled rejection, which ends the process and with it every timer
SaveCompleted_unhandled(c, ok) ==
    /\ cycles[c].pc = "saving"
    /\ disk' = IF ok THEN cycles[c].write ELSE disk
    /\ writeFailures' = IF ok THEN writeFailures ELSE writeFailures + 1
    /\ lastMemoryCall' = MemoryCall("recordIntervention", saveThrows(ok),
                                    IF ok THEN "ok" ELSE "failed", FALSE)
    /\ cycles' = [cycles EXCEPT ![c] = DoneCycle]
    /\ screenCheckInterval' = (ok /\ screenCheckInterval)
    /\ idleCheckInterval' = (ok /\ idleCheckInterval)
    /\ listening' = (ok /\ listening)
    /\ UNCHANGED <<agentVars, response, lastAnalysis, now, lastActivityTime, isIdle, callbacks,
                   alarmActive, lastInterventionTime, executed, sessions,
                   currentSession, userProfile, ema>>

\* writeTextFile completes or fails; a failure is rethrown by save and caught
\* by runAgentCheck
SaveCompleted(c, ok) ==
    /\ cycles[c].pc = "saving"
    /\ disk' = IF ok THEN cycles[c].write ELSE disk
    /\ writeFailures' = IF ok THEN writeFailures ELSE writeFailures + 1
    /\ lastMemoryCall' = MemoryCall("recordIntervention", saveThrows(ok),
                                    IF ok THEN "ok" ELSE "failed", FALSE)
    /\ cycles' = [cycles EXCEPT ![c] = DoneCycle]
    /\ UNCHANGED <<agentVars, response, lastAnalysis, now, monitorVars, alarmActive,
                   lastInterventionTime, executed,
                   screenCheckInterval, sessions,
                   currentSession, userProfile, ema>>

NextDetector ==
    \/ Tick
    \/ IdleCheck
    \/ ActivityEvent
    \/ RunAgentCheck
    \/ \E c \in 1..MaxCycles : ContextBuilt(c)
    \/ \E c \in 1..MaxCycles, r \in DetectorResponses : DecisionReturned(c, r)
    \/ \E c \in 1..MaxCycles : ExecuteDecision(c)
    \/ \E c \in 1..MaxCycles : RecordIntervention(c)
    \/ \E c \in 1..MaxCycles, ok \in BOOLEAN : SaveCompleted(c, ok)

SpecDetector == InitDetector /\ [][NextDetector]_vars

(***************************************************************************)
(* SpecShutdown: the running detector of SpecDetector, on which stop() may *)
(* be called once at any moment.  stop() runs to its end or to the         *)
(* statement that throws; cycles that are in flight resume after it.       *)
(***************************************************************************)
\* endSession rejects inside stop(): a session is open and its save fails
stopThrows(writeOk) == currentSession # None /\ saveThrows(writeOk)

\* AgentBasedDetector.stop()
DetectorStop(writeOk, failed, text) ==
    /\ screenCheckInterval
    /\ idleCheckInterval' = FALSE
    /\ screenCheckInterval' = FALSE
    /\ IF currentSession = None
       THEN /\ lastMemoryCall' = MemoryCall("endSession", FALSE, "none", FALSE)
            /\ UNCHANGED <<sessions, currentSession, userProfile, disk, writeFailures>>
       ELSE LET session == EndedSession(currentSession[1], TRUE, EndSummary, now)
                ss == KeepLastSessions(Append(sessions, session))
                profile == updateUserProfile(userProfile, session, now)
            IN  /\ sessions' = ss
                /\ userProfile' = profile
                /\ currentSession' = None
                /\ SaveAs("endSession", ss, profile, writeOk)
    /\ IF stopThrows(writeOk)
       THEN UNCHANGED agentVars
       ELSE AnalyzeProductivityPatterns(failed, text)
    /\ UNCHANGED <<response, lastAnalysis, now, lastActivityTime, isIdle, listening, callbacks,
                   alarmActive, lastInterventionTime, executed, cycles, ema>>

NextShutdown ==
    \/ NextDetector
    \/ \E writeOk \in BOOLEAN, failed \in BOOLEAN, text \in AnalysisTexts :
            DetectorStop(writeOk, failed, text)

SpecShutdown == InitDetector /\ [][NextShutdown]_vars

(***************************************************************************)
(* SpecMonitor: an ActivityMonitor from its construction, the clock        *)
(* advancing second by second: start(), the one-second idle checks, the    *)
(* input events of the gkm loop, and stop().  The callbacks are those of   *)
(* a detector that has no alarm active.                                    *)
(***************************************************************************)
InitMonitor ==
    /\ AgentInit
    /\ response = NoResponse
    /\ lastAnalysis = NoAnalysis
    /\ Constructed

\* start(): startIdleCheck arms the interval, then the gkm loop is entered;
\* when gkm fails the catch block logs and the interval stays armed
MonitorStart(gkmOk) ==
    /\ ~idleCheckInterval /\ ~listening
    /\ idleCheckInterval' = TRUE
    /\ listening' = gkmOk
    /\ UNCHANGED <<agentVars, response, lastAnalysis, now, lastActivityTime, isIdle, callbacks,
                   detectorVars, memoryVars>>

\* stop(): clearInterval; the gkm loop is not ended
MonitorStop ==
    /\ idleCheckInterval
    /\ idleCheckInterval' = FALSE
    /\ UNCHANGED <<agentVars, response, lastAnalysis, now, lastActivityTime, isIdle, listening,
                   callbacks, detectorVars, memoryVars>>

\* a second passes
SecondPasses ==
    /\ now < MaxSeconds
    /\ now' = now + 1
    /\ UNCHANGED <<agentVars, response, lastAnalysis, monitorVars, detectorVars, memoryVars>>

NextMonitor ==
    \/ \E gkmOk \in BOOLEAN : MonitorStart(gkmOk)
    \/ MonitorStop
    \/ SecondPasses
    \/ IdleCheck
    \/ ActivityEvent

SpecMonitor == InitMonitor /\ [][NextMonitor]_vars

(***************************************************************************)
(* SpecDismiss: the running detector of SpecDetector with the clock        *)
(* advancing second by second, and the one-second idle check on time: the  *)
(* clock does not advance while an idle check that would find the          *)
(* threshold crossed is due.                                               *)
(***************************************************************************)
IdleCheckDue ==
    idleCheckInterval /\ getIdleTimeSeconds >= idleThresholdSeconds /\ ~isIdle

TimelySecondPasses ==
    /\ ~IdleCheckDue
    /\ now < MaxDismissSeconds
    /\ now' = now + 1
    /\ UNCHANGED <<agentVars, response, lastAnalysis, monitorVars, detectorVars,
                   memoryVars>>

\* the backend asks for an alarm, declines, or fails
DismissResponses ==
    {NoResponse, Answer("true", "object", "alarm"), Answer("false", "object", "none")}

NextDismiss ==
    \/ TimelySecondPasses
    \/ IdleCheck
    \/ ActivityEvent
    \/ RunAgentCheck
    \/ \E c \in 1..MaxCycles : ContextBuilt(c)
    \/ \E c \in 1..MaxCycles, r \in DismissResponses : DecisionReturned(c, r)
    \/ \E c \in 1..MaxCycles : ExecuteDecision(c)
    \/ \E c \in 1..MaxCycles : RecordIntervention(c)
    \/ \E c \in 1..MaxCycles, ok \in BOOLEAN : SaveCompleted(c, ok)

SpecDismiss == InitDetector /\ [][NextDismiss]_vars

(***************************************************************************)
(* Claims about decideIntervention's result (SpecParse).                   *)
(***************************************************************************)
Returned == lastCall.op = "decideIntervention"

\* the responses the fail-closed rule is about
NoBracePayload(r) == jsonMatch(r.text) = None
NotValidJson(r) ==
    /\ ~NoBracePayload(r)
    /\ JsonParse(jsonMatch(r.text)[1], r.payload) = None
LacksRequiredField(r) ==
    /\ ~NoBracePayload(r)
    /\ ~NotValidJson(r)
    /\ LET p == JsonParse(jsonMatch(r.text)[1], r.payload)[1]
       IN  \/ p.shouldIntervene \notin {"true", "false"}
           \/ p.intervention.kind # "object"
           \/ p.reasoning # "text"
MalformedOrAbsent(r) ==
    r.failed \/ NoBracePayload(r) \/ NotValidJson(r) \/ LacksRequiredField(r)

\* C1: for every backend response that has no brace-delimited payload, whose
\* payload is not valid JSON or lacks a boolean shouldIntervene, an intervention
\* object or a non-empty reasoning, and for every failure of the backend call,
\* decideIntervention returns without throwing a decision with
\* shouldIntervene=false, intervention.type="none" and confidence=0, and it
\* appends nothing to the history.
C1_FailClosed ==
    (Returned /\ MalformedOrAbsent(response)) =>
        /\ ~lastCall.threw
        /\ lastDecision # None
        /\ lastDecision[1].shouldIntervene = FALSE
        /\ lastDecision[1].intervention.type = "none"
        /\ lastDecision[1].confidence = Some(0)
        /\ interventionHistory = <<>>

\* C2: every decision decideIntervention returns satisfies
\* shouldIntervene=false => intervention.type="none".
C2_NoInterveneIsNone ==
    Returned =>
        (lastDecision[1].shouldIntervene = FALSE
            => lastDecision[1].intervention.type = "none")

\* C3: every decision decideIntervention returns has its intervention.type in
\* {alarm, notification, gentle_reminder, none}; a payload with another or no
\* type is replaced by the default decision.
C3_TypeInEnum ==
    Returned => lastDecision[1].intervention.type \in InterventionTypes

\* C4: every decision decideIntervention returns has a confidence in 0..100,
\* whatever confidence the payload carried.
C4_ConfidenceInRange ==
    Returned =>
        /\ lastDecision[1].confidence # None
        /\ lastDecision[1].confidence[1] \in 0..100

\* C7: every record of the intervention history has type alarm, notification
\* or gentle_reminder; a decision of type "none" creates no record, even when
\* its shouldIntervene is true.
C7_HistoryTypes ==
    \A i \in DOMAIN interventionHistory :
        interventionHistory[i].type \in InterventionTypes \ {"none"}

(***************************************************************************)
(* Claims about the history (SpecHistory, SpecAgent).                      *)
(***************************************************************************)
\* C5: the history holds at most maxHistorySize (10) records; once more than
\* 10 records have been appended it holds exactly 10, and they are the 10 most
\* recently appended records in append order.
C5_HistoryBound ==
    /\ Len(interventionHistory) <= maxHistorySize
    /\ appended > maxHistorySize => Len(interventionHistory) = maxHistorySize
    /\ \A i \in DOMAIN interventionHistory :
        interventionHistory[i].seq = appended - Len(interventionHistory) + i

C5_Witness ==
    /\ appended > maxHistorySize + 1
    /\ Len(interventionHistory) = maxHistorySize
    /\ interventionHistory[1].seq = appended - maxHistorySize + 1

IsRecordCall == lastCall'.op = "recordInterventionEffectiveness"

\* C8: recordInterventionEffectiveness(b) changes at most the wasEffective
\* field of the last record: the length, the order, every other record and
\* the other fields of the last record are unchanged; with an empty history
\* it changes nothing and does not raise.
C8_EffectivenessFrame ==
    [][IsRecordCall =>
        LET n == Len(interventionHistory)
        IN  /\ Len(interventionHistory') = n
            /\ \A i \in 1..n :
                \/ interventionHistory'[i] = interventionHistory[i]
                \/ /\ i = n
                   /\ [interventionHistory'[i] EXCEPT !.wasEffective = None]
                        = [interventionHistory[i] EXCEPT !.wasEffective = None]
            /\ n = 0 => (interventionHistory' = <<>> /\ ~lastCall'.threw)
      ]_vars

C8_Witness ==
    /\ lastCall.op = "recordInterventionEffectiveness"
    /\ Len(interventionHistory) >= 2
    /\ interventionHistory[Len(interventionHistory)].wasEffective # None
    /\ interventionHistory[1].wasEffective = None

\* C9: recordInterventionEffectiveness is a no-op when the last record is
\* already scored: a further call with any b leaves its wasEffective unchanged.
C9_ScoredOnce ==
    [][(/\ IsRecordCall
        /\ Len(interventionHistory) > 0
        /\ interventionHistory[Len(interventionHistory)].wasEffective # None)
       => interventionHistory' = interventionHistory
      ]_vars

\* C11: analyzeProductivityPatterns invokes the reasoning backend if and
\* only if the history holds at least 3 records; with 0, 1 or 2 records it
\* returns the fixed insufficient-data message and makes no backend call.
C11_AnalysisThreshold ==
    lastCall.op = "analyzeProductivityPatterns" =>
        /\ lastCall.backend <=> Len(interventionHistory) >= 3
        /\ Len(interventionHistory) \in {0, 1, 2} =>
            /\ lastCall.text = InsufficientDataMessage
            /\ ~lastCall.threw

\* the analysis of a history of exactly three records came from the backend
C11_Witness ==
    /\ lastCall.op = "analyzeProductivityPatterns"
    /\ Len(interventionHistory) = 3
    /\ lastCall.backend
    /\ lastCall.text = "analysis"

(***************************************************************************)
(* Claims about the effectiveness rate (SpecRate, SpecMemory).             *)
(***************************************************************************)
Rate == userProfile.interventionEffectivenessRate

\* the exponential moving average with weight 1/5 of the samples, in order,
\* from the rate r0: its numerator over the denominator r0.den * 5^n
RECURSIVE EmaNumerator(_, _)
EmaNumerator(r0, samples) ==
    IF samples = <<>> THEN r0.num
    ELSE LET n == Len(samples)
             head == SubSeq(samples, 1, n - 1)
         IN  4 * EmaNumerator(r0, head)
                + (IF samples[n] THEN 1 ELSE 0) * r0.den * Pow(5, n - 1)

\* C12: each updateInterventionEffectiveness(s) sets
\* rate' = 0.2*(1 if s else 0) + 0.8*rate, so that after any sequence of
\* samples the rate equals the exponential moving average with weight 0.2
\* applied in sequence order; from 0.5, true gives 0.6 and false next 0.48.
C12_EmaClosedForm ==
    /\ Rate.den = ema.r0.den * Pow(5, Len(ema.samples))
    /\ Rate.num = EmaNumerator(ema.r0, ema.samples)
    /\ ema.r0 = [num |-> 1, den |-> 2] =>
        /\ ema.samples = <<TRUE>> => 10 * Rate.num = 6 * Rate.den
        /\ ema.samples = <<TRUE, FALSE>> => 100 * Rate.num = 48 * Rate.den

C12_Witness ==
    /\ ema.r0 = [num |-> 1, den |-> 2]
    /\ ema.samples = <<TRUE, FALSE>>
    /\ 100 * Rate.num = 48 * Rate.den
    /\ lastMemoryCall.op = "updateInterventionEffectiveness"

SameRate(r, q) == r.num * q.den = q.num * r.den

\* the call this step makes on the store (SpecMemory: every step sets it)
IsMemoryCall(op) == lastMemoryCall'.op = op

\* C13: starting from the default profile (rate 0.5), the rate stays within
\* [0,1] after any sequence of MemorySystem operations, and no operation on a
\* store other than updateInterventionEffectiveness and a successful load
\* changes it (a new store starts from the default or from the file).
C13_RateInUnitInterval ==
    /\ [](Rate.den > 0 /\ 0 <= Rate.num /\ Rate.num <= Rate.den)
    /\ [][~SameRate(Rate', Rate) =>
            \/ IsMemoryCall("updateInterventionEffectiveness")
            \/ IsMemoryCall("load") /\ lastMemoryCall'.loaded
            \/ IsMemoryCall("loadFresh")
         ]_vars

\* a rate moved by a sample has been saved, and read back by a new store
\* together with a closed session
C13_Witness ==
    /\ lastMemoryCall.op = "loadFresh"
    /\ lastMemoryCall.loaded
    /\ 10 * Rate.num = 6 * Rate.den
    /\ userProfile.totalSessions = 1
    /\ userProfile.totalInterventions = 1

(***************************************************************************)
(* Claims about session accounting (SpecMemory).                           *)
(***************************************************************************)
\* this step is an endSession that closes the open session
ClosesSession == IsMemoryCall("endSession") /\ currentSession # None

\* the session this step pushed onto the log
ClosedSession == sessions'[Len(sessions')]

\* C14: productiveSessions <= totalSessions after any sequence of
\* startSession, endSession, recordIntervention and
\* updateInterventionEffectiveness calls, and each endSession that closes an
\* open session increases totalSessions by exactly 1 and productiveSessions by
\* 1 if wasProductive, else by 0.
C14_SessionCounters ==
    /\ [](userProfile.productiveSessions <= userProfile.totalSessions)
    /\ [][ClosesSession =>
            /\ userProfile'.totalSessions = userProfile.totalSessions + 1
            /\ userProfile'.productiveSessions =
                    userProfile.productiveSessions
                        + (IF ClosedSession.wasProductive THEN 1 ELSE 0)
         ]_vars

\* a productive and an unproductive session have been closed
C14_Witness ==
    /\ lastMemoryCall.op = "endSession"
    /\ userProfile.totalSessions = 2
    /\ userProfile.productiveSessions = 1
    /\ Len(sessions) = 2

HourKeys == {ToDecimal(h) : h \in 0..(HoursPerDay - 1)}

\* the count of an hour in a histogram; an hour without bucket counts 0
Bucket(map, key) == IF key \in DOMAIN map THEN map[key] ELSE 0

\* C15: each endSession that closes an open session increments exactly one
\* histogram bucket by exactly 1: the bucket of the hour of the session's
\* start time (not of its end time), in the productive histogram when
\* wasProductive is true and in the unproductive histogram otherwise; every
\* other bucket of both histograms is unchanged.
C15_OneBucket ==
    [][ClosesSession =>
        LET key == ToDecimal(getHours(currentSession[1].startTime))
            productive == ClosedSession.wasProductive
        IN  /\ DOMAIN userProfile'.productiveHoursMap \subseteq HourKeys
            /\ DOMAIN userProfile'.unproductiveHoursMap \subseteq HourKeys
            /\ \A k \in HourKeys :
                /\ Bucket(userProfile'.productiveHoursMap, k) =
                        Bucket(userProfile.productiveHoursMap, k)
                            + (IF productive /\ k = key THEN 1 ELSE 0)
                /\ Bucket(userProfile'.unproductiveHoursMap, k) =
                        Bucket(userProfile.unproductiveHoursMap, k)
                            + (IF ~productive /\ k = key THEN 1 ELSE 0)
      ]_vars

\* a session that started at 23 and ended after midnight is counted at 23
C15_Witness ==
    /\ lastMemoryCall.op = "endSession"
    /\ sessions # <<>>
    /\ LET session == sessions[Len(sessions)]
       IN  /\ getHours(session.startTime) = HoursPerDay - 1
           /\ getHours(session.endTime[1]) = 0
           /\ ~session.wasProductive
           /\ Bucket(userProfile.unproductiveHoursMap,
                     ToDecimal(HoursPerDay - 1)) >= 1
           /\ Bucket(userProfile.unproductiveHoursMap, ToDecimal(0)) = 0

(***************************************************************************)
(* Claims about the top-hours queries (SpecTopHours).                      *)
(***************************************************************************)
\* hour h with count c comes before hour g with count d
RanksBefore(c, h, d, g) == c > d \/ (c = d /\ h < g)

TopHoursOf(map, n, hours) ==
    /\ Len(hours) = Min({n, Cardinality(DOMAIN map)})
    /\ \A i \in DOMAIN hours :
        /\ hours[i] \in 0..(HoursPerDay - 1)
        /\ ToDecimal(hours[i]) \in DOMAIN map
    /\ \A i, j \in DOMAIN hours :
        i < j => RanksBefore(map[ToDecimal(hours[i])], hours[i],
                             map[ToDecimal(hours[j])], hours[j])
    /\ \A i \in DOMAIN hours, k \in DOMAIN map :
        (\A j \in DOMAIN hours : hours[j] # parseInt(k))
            => RanksBefore(map[ToDecimal(hours[i])], hours[i], map[k], parseInt(k))

\* C16: getTopProductiveHours(n) and getTopUnproductiveHours(n) return at
\* most n distinct hours ordered by descending frequency count, and among
\* hours with equal counts the lower hour number comes first, for every
\* histogram over hours 0..23 regardless of the order in which the buckets
\* were first created; the hours returned are the first n of that order.
C16_TopHours ==
    /\ lastMemoryCall.op = "getTopProductiveHours" =>
        /\ Len(lastMemoryCall.hours) <= lastMemoryCall.n
        /\ TopHoursOf(userProfile.productiveHoursMap, lastMemoryCall.n,
                      lastMemoryCall.hours)
    /\ lastMemoryCall.op = "getTopUnproductiveHours" =>
        /\ Len(lastMemoryCall.hours) <= lastMemoryCall.n
        /\ TopHoursOf(userProfile.unproductiveHoursMap, lastMemoryCall.n,
                      lastMemoryCall.hours)

\* hours 2 and 10 tie behind hour 23, and the two highest are asked for
C16_Witness ==
    /\ lastMemoryCall.op = "getTopProductiveHours"
    /\ lastMemoryCall.n = 2
    /\ userProfile.productiveHoursMap =
            [k \in {ToDecimal(2), ToDecimal(10), ToDecimal(23)} |->
                IF k = ToDecimal(23) THEN 2 ELSE 1]
    /\ lastMemoryCall.hours = <<23, 2>>

(***************************************************************************)
(* Claims about persistence (SpecMemory).                                  *)
(***************************************************************************)
SameProfile(p, q) ==
    /\ p.productiveHoursMap = q.productiveHoursMap
    /\ p.unproductiveHoursMap = q.unproductiveHoursMap
    /\ SameRate(p.interventionEffectivenessRate, q.interventionEffectivenessRate)
    /\ p.totalSessions = q.totalSessions
    /\ p.productiveSessions = q.productiveSessions
    /\ p.totalInterventions = q.totalInterventions
    /\ p.lastUpdated = q.lastUpdated

\* what a new store holds after load() reads the file a successful save()
\* of the present store writes
SavedAndLoaded ==
    load(Some(MemoryDocument(sessions, userProfile)), TRUE,
         <<>>, DefaultUserProfile(now))

\* C17: for every store state, a successful save() followed by load() on a
\* freshly constructed store yields the same sessions sequence (same order,
\* same field values) and the same userProfile (same counters, rate and
\* histograms).
C17_RoundTrip ==
    /\ SavedAndLoaded.sessions = sessions
    /\ SameProfile(SavedAndLoaded.userProfile, userProfile)

\* a new store has read back two sessions, both histograms and a moved rate,
\* and holds what the file holds
C17_Witness ==
    /\ lastMemoryCall.op = "loadFresh"
    /\ lastMemoryCall.loaded
    /\ Len(sessions) = 2
    /\ sessions[1].startTime # sessions[2].startTime
    /\ userProfile.productiveHoursMap # <<>>
    /\ userProfile.unproductiveHoursMap # <<>>
    /\ 10 * Rate.num = 4 * Rate.den
    /\ disk = Some(MemoryDocument(sessions, userProfile))

IsDefaultState ==
    /\ sessions = <<>>
    /\ userProfile.productiveHoursMap = <<>>
    /\ userProfile.unproductiveHoursMap = <<>>
    /\ SameRate(Rate, [num |-> 1, den |-> 2])
    /\ userProfile.totalSessions = 0
    /\ userProfile.productiveSessions = 0
    /\ userProfile.totalInterventions = 0

\* C19: load() never raises to its caller; when the persisted file is absent,
\* unreadable or not parseable, the store's state after load() is the
\* documented default: empty session log and a profile with rate 0.5, all
\* counters 0 and empty histograms.
C19_LoadDefaults ==
    lastMemoryCall.op \in {"load", "loadFresh"} =>
        /\ ~lastMemoryCall.threw
        /\ ~lastMemoryCall.loaded => IsDefaultState

\* C20: a persistence write failure is never swallowed by the memory store:
\* when the write inside save() fails, save() raises to its caller, and so do
\* startSession, endSession and recordIntervention when their internal save
\* fails.
C20_WriteFailureRaises ==
    /\ lastMemoryCall.write = "failed" =>
        /\ lastMemoryCall.threw
        /\ lastMemoryCall.op \in
                {"save", "startSession", "endSession", "recordIntervention"}
    /\ lastMemoryCall.threw => lastMemoryCall.write = "failed"

\* endSession has closed a session and thrown: the file lacks the session
C20_Witness ==
    /\ lastMemoryCall = MemoryCallFrom("endSession", TRUE, "failed", FALSE, TRUE)
    /\ sessions # <<>>
    /\ currentSession = None
    /\ disk # Some(MemoryDocument(sessions, userProfile))

(***************************************************************************)
(* Claims about the activity monitor (SpecMonitor).                        *)
(***************************************************************************)
\* C18: ActivityMonitor fires onIdleDetected exactly once each time the idle
\* time reaches the threshold (not again on later one-second checks while the
\* user stays idle), and fires onActivityDetected exactly once on the first
\* activity event after an idle detection (not on further activity events
\* while the user stays active): onIdleDetected is invoked exactly in the
\* steps that turn isIdle on, which need the threshold reached,
\* onActivityDetected exactly in the steps that turn it off, one invocation
\* per step, so that the two alternate.
C18_EdgeTriggered ==
    /\ [](callbacks.onIdleDetected - callbacks.onActivityDetected
            = IF isIdle THEN 1 ELSE 0)
    /\ [][/\ callbacks'.onIdleDetected =
                callbacks.onIdleDetected + (IF ~isIdle /\ isIdle' THEN 1 ELSE 0)
          /\ callbacks'.onActivityDetected =
                callbacks.onActivityDetected + (IF isIdle /\ ~isIdle' THEN 1 ELSE 0)
          /\ (~isIdle /\ isIdle') =>
                now - lastActivityTime >= idleThresholdSeconds
          /\ (isIdle /\ ~isIdle') => lastActivityTime' = now
         ]_vars

\* idle was detected twice and the user resumed twice; the user is active,
\* and a further activity event has been handled since the last resume
C18_Witness ==
    /\ callbacks = [onIdleDetected |-> 2, onActivityDetected |-> 2]
    /\ ~isIdle
    /\ now - lastActivityTime = 0
    /\ now = 2 * idleThresholdSeconds + 2

(***************************************************************************)
(* Claims about the detector (SpecDetector).                               *)
(***************************************************************************)
Moves(c, from, to) == cycles[c].pc = from /\ cycles'[c].pc = to

Stored(history, intervention) ==
    \E i \in DOMAIN history : history[i].seq = intervention.seq

ScoringStep == isIdle /\ ~isIdle' /\ alarmActive /\ listening

\* C10: in every run of the detector the wasEffective field of each history
\* record is written at most once and never changes afterwards.
C10_WrittenOnce ==
    [][/\ (ScoringStep /\ interventionHistory # <<>> /\ ~recordThrows(interventionHistory))
            => interventionHistory[Len(interventionHistory)].wasEffective = None
       /\ \A i \in DOMAIN interventionHistory, j \in DOMAIN interventionHistory' :
            (/\ interventionHistory[i].seq = interventionHistory'[j].seq
             /\ interventionHistory[i].wasEffective # None)
            => interventionHistory'[j].wasEffective = interventionHistory[i].wasEffective
      ]_vars


(***************************************************************************)
(* Claims about the bounded session log (SpecLog).                         *)
(***************************************************************************)
\* C21: the session log never holds more than 100 sessions after any sequence
\* of endSession calls; when a close would make it 101, the oldest session is
\* dropped and the remaining 100 keep their order, the newly closed session
\* last.
C21_LogBound ==
    /\ [](Len(sessions) <= MaxStoredSessions)
    /\ [][ClosesSession =>
            /\ ClosedSession =
                    EndedSession(currentSession[1], ClosedSession.wasProductive,
                                 EndSummary, now)
            /\ IF Len(sessions) = MaxStoredSessions
               THEN /\ Len(sessions') = MaxStoredSessions
                    /\ \A i \in 1..(MaxStoredSessions - 1) :
                            sessions'[i] = sessions[i + 1]
               ELSE /\ Len(sessions') = Len(sessions) + 1
                    /\ \A i \in 1..Len(sessions) : sessions'[i] = sessions[i]
         ]_vars

\* two sessions were closed on a full log: the two oldest are gone
C21_Witness ==
    /\ lastMemoryCall.op = "endSession"
    /\ lastMemoryCall.open
    /\ userProfile.totalSessions = MaxStoredSessions + 2
    /\ Len(sessions) = MaxStoredSessions
    /\ sessions[1] = EarlierSession(3)
    /\ sessions[MaxStoredSessions].endTime = Some(now)


(***************************************************************************)
(* Claims about the calls on the store, one by one (SpecMemory).           *)
(***************************************************************************)
\* C22: endSession with no open session is a no-op: the session log, every
\* profile field and the persisted document are unchanged and nothing is
\* raised; and endSession leaves no session open, so that a second endSession
\* right after a first has no further effect.
C22_EndSessionNoOp ==
    [][IsMemoryCall("endSession") =>
            /\ currentSession' = None
            /\ currentSession = None =>
                    /\ sessions' = sessions
                    /\ userProfile' = userProfile
                    /\ disk' = disk
                    /\ writeFailures' = writeFailures
                    /\ ~lastMemoryCall'.threw
      ]_vars

\* an endSession whose write failed, then an endSession that found no session
\* open: the closed session is in the log and still not in the file
C22_Witness ==
    /\ lastMemoryCall.op = "endSession"
    /\ ~lastMemoryCall.open
    /\ ~lastMemoryCall.threw
    /\ Len(sessions) = 1
    /\ writeFailures = 1
    /\ disk = Some(MemoryDocument(<<>>, DefaultUserProfile(Min(StartTimes))))


\* the session log, the session counters or a histogram change in this step
ChangesSessionRecords ==
    \/ sessions' # sessions
    \/ userProfile'.totalSessions # userProfile.totalSessions
    \/ userProfile'.productiveSessions # userProfile.productiveSessions
    \/ userProfile'.productiveHoursMap # userProfile.productiveHoursMap
    \/ userProfile'.unproductiveHoursMap # userProfile.unproductiveHoursMap

\* C23: at most one session is open at any time, and startSession called
\* while a session is open replaces it: the new open session has
\* interventionsCount 0, and the replaced session is never appended to the
\* log nor counted in totalSessions or a histogram (only an endSession, which
\* records the session open at that moment, or a load changes those).
C23_LastStartWins ==
    /\ [](Len(currentSession) <= 1)
    /\ [][IsMemoryCall("startSession") =>
            /\ currentSession' = Some(NewSession(now))
            /\ currentSession'[1].interventionsCount = 0
            /\ ~ChangesSessionRecords
         ]_vars
    /\ [][ChangesSessionRecords =>
            \/ IsMemoryCall("load") \/ IsMemoryCall("loadFresh")
            \/ /\ ClosesSession
               /\ ClosedSession.startTime = currentSession[1].startTime
               /\ ClosedSession.interventionsCount =
                        currentSession[1].interventionsCount
         ]_vars

\* startSession was called while a session with one intervention was open
C23_Witness ==
    /\ lastMemoryCall.op = "startSession"
    /\ lastMemoryCall.open
    /\ userProfile.totalInterventions = 1
    /\ currentSession = Some(NewSession(now))
    /\ sessions = <<>>
    /\ userProfile.totalSessions = 0


\* the rate as the memory file holds it
PersistedRate == ParseRate(disk[1].userProfile[1].interventionEffectivenessRate)

HasPersistedProfile == disk # None /\ disk[1].userProfile # None

\* C25: updateInterventionEffectiveness changes only
\* interventionEffectivenessRate: it writes nothing to the memory file, and
\* the session log, the open session, the histograms and all counters are
\* unchanged; a persisted rate that agreed with the in-memory rate no longer
\* does, and the file changes only in a call that saves.
C25_RateOnly ==
    /\ [][IsMemoryCall("updateInterventionEffectiveness") =>
            /\ lastMemoryCall'.write = "none"
            /\ disk' = disk
            /\ writeFailures' = writeFailures
            /\ sessions' = sessions
            /\ currentSession' = currentSession
            /\ userProfile' =
                    [userProfile EXCEPT !.interventionEffectivenessRate =
                        userProfile'.interventionEffectivenessRate]
            /\ HasPersistedProfile /\ SameRate(PersistedRate, Rate) =>
                    ~SameRate(PersistedRate', Rate')
         ]_vars
    /\ [][disk' # disk => lastMemoryCall'.write = "ok"]_vars

\* the rate was saved as 0.5 with a session open, and a sample has moved the
\* in-memory rate to 0.6
C25_Witness ==
    /\ lastMemoryCall.op = "updateInterventionEffectiveness"
    /\ lastMemoryCall.open
    /\ HasPersistedProfile
    /\ 2 * PersistedRate.num = PersistedRate.den
    /\ 10 * Rate.num = 6 * Rate.den

(***************************************************************************)
(* Claims about the store as the detector uses it (SpecDetector).          *)
(***************************************************************************)
\* totalInterventions as the memory file holds it
PersistedInterventions ==
    ParseProfile(disk[1].userProfile[1]).totalInterventions

\* C24: with a session open, recordIntervention increases the open session's
\* interventionsCount and the profile's totalInterventions by exactly 1 each
\* and completes a save before it returns, so that on return the persisted
\* totalInterventions equals the in-memory totalInterventions.
C24_PersistedOnReturn ==
    [][\A c \in 1..MaxCycles :
        /\ Moves(c, "executed", "saving") =>
            /\ currentSession'[1].interventionsCount =
                    currentSession[1].interventionsCount + 1
            /\ userProfile'.totalInterventions = userProfile.totalInterventions + 1
        /\ Moves(c, "saving", "done") /\ lastMemoryCall'.write = "ok" =>
            PersistedInterventions' = userProfile'.totalInterventions
      ]_vars


\* the runAgentCheck invocations that have started and not returned
InFlight == {c \in 1..MaxCycles : cycles[c].pc \notin {"new", "done"}}

\* C26: at most one runAgentCheck cycle of a detector is in flight at any
\* time: while a cycle is suspended on the classifier, the reasoning backend
\* or a persistence write, a tick of the interval timer starts no new cycle.
C26_NoConcurrentCycles == Cardinality(InFlight) <= 1


\* the engine gave up: the backend failed or its response was unusable
EngineFailed(decision) == decision = getDefaultDecision(decision.intervention.timestamp,
                                                        decision.intervention.seq)

\* C27: a failure inside one decision cycle (the engine call, or a save
\* failure in memory.recordIntervention) is caught at the cycle boundary: the
\* cycle ends, the periodic timer stays armed and so do the idle check and the
\* event loop, and a cycle in which the engine or backend failed executes no
\* intervention.
C27_CycleFailuresCaught ==
    /\ []screenCheckInterval
    /\ [][\A c \in 1..MaxCycles :
            /\ cycles[c].pc = "saving" /\ cycles'[c].pc # "saving" =>
                /\ cycles'[c] = DoneCycle
                /\ idleCheckInterval' = idleCheckInterval
                /\ listening' = listening
            /\ cycles[c].pc = "decided" /\ cycles'[c].pc # "decided"
                    /\ EngineFailed(cycles[c].decision[1]) =>
                /\ cycles'[c] = DoneCycle
                /\ alarmActive' = alarmActive
                /\ lastInterventionTime' = lastInterventionTime
                /\ UNCHANGED memoryVars
         ]_vars

\* a cycle has ended with a failed save, and the other cycle is in flight with
\* the timer still armed
C27_Witness ==
    /\ screenCheckInterval
    /\ lastMemoryCall.op = "recordIntervention"
    /\ lastMemoryCall.threw
    /\ cycles[1] = DoneCycle
    /\ cycles[2].pc = "screen"


(***************************************************************************)
(* Claims about shutdown (SpecShutdown).                                   *)
(***************************************************************************)
\* this step is stop(): only stop() clears the periodic timer
StopStep == screenCheckInterval /\ ~screenCheckInterval'

\* C28: AgentBasedDetector.stop() stops the periodic timer and the idle
\* check, closes the open session as productive, persists, and runs the final
\* pattern analysis; no later step is skipped because an earlier one failed:
\* a failing endSession/save does not prevent the final pattern analysis.
C28_ShutdownComplete ==
    [][StopStep =>
            /\ ~idleCheckInterval'
            /\ currentSession' = None
            /\ currentSession # None =>
                    /\ ClosedSession.wasProductive
                    /\ ClosedSession.startTime = currentSession[1].startTime
                    /\ lastMemoryCall'.op = "endSession"
                    /\ lastMemoryCall'.write # "none"
            /\ lastCall'.op = "analyzeProductivityPatterns"
      ]_vars


(***************************************************************************)
(* Claims about the screen classifier (SpecScreen).                        *)
(***************************************************************************)
\* a ScreenAnalysis: an object with a boolean isProcrastinating and a
\* confidence within 0..100
WellFormedAnalysis(a) ==
    /\ a.kind = "object"
    /\ a.isProcrastinating \in {"true", "false"}
    /\ a.confidence # None
    /\ a.confidence[1] \in 0..100

\* the capture or the backend failed, or the reply is not the JSON text of a
\* well-formed analysis
ScreenFailure(o) ==
    \/ o.capture # "ok"
    \/ o.backend # "ok"
    \/ ScreenJsonParse(o.text, o.payload) = None
    \/ ~WellFormedAnalysis(ScreenJsonParse(o.text, o.payload)[1])

\* C29: the screen classifier never propagates a failure and never returns
\* an ill-formed result: on a capture error, a backend error or a malformed
\* backend response (not JSON, or JSON that is not an object with a boolean
\* isProcrastinating and a 0..100 confidence) analyzeCurrentActivity resolves
\* to the safe default with isProcrastinating=false and confidence=0.
C29_ClassifierSafeDefault ==
    lastAnalysis.called =>
        /\ ~lastAnalysis.threw
        /\ WellFormedAnalysis(lastAnalysis.result)
        /\ ScreenFailure(lastAnalysis.outcome) =>
                /\ lastAnalysis.result.isProcrastinating = "false"
                /\ lastAnalysis.result.confidence = Some(0)


(***************************************************************************)
(* Claims about dismissing an alert (SpecDismiss).                         *)
(***************************************************************************)
\* this step is a keyboard or mouse event that arrives at recordActivity
\* (an event at the very instant of the previous one changes nothing)
ActivityStep == lastActivityTime' # lastActivityTime \/ (isIdle /\ ~isIdle')

\* C30: whenever an alert is active (alarmActive = true) and the user
\* produces a keyboard or mouse activity event, the alert is dismissed
\* (alarmActive becomes false), also when the alert was raised by a decision
\* cycle while the user was not idle.
C30_AutoDismiss == [][ActivityStep /\ alarmActive => ~alarmActive']_vars

(***************************************************************************)
(* Claims about the temporary screenshot (SpecScreen).                     *)
(***************************************************************************)
\* C31: no screenshot is left on local storage: whenever
\* analyzeCurrentActivity has returned, on the success path and on every
\* failure path after the capture (file read error, backend error), the
\* temporary screenshot file it wrote no longer exists.  (Stated for the
\* calls in which the file can be deleted.)
C31_NoScreenshotLeft ==
    lastAnalysis.called /\ lastAnalysis.outcome.written
            /\ lastAnalysis.outcome.removeOk =>
        ~lastAnalysis.file


(***************************************************************************)
(* Claims about prose around the payload (SpecParse).                      *)
(***************************************************************************)
\* a decision payload as the prompt asks for it
WellFormedPayload(p) ==
    /\ p.shouldIntervene \in {"true", "false"}
    /\ p.intervention.kind = "object"
    /\ p.reasoning = "text"

\* the text holds exactly one serialised payload; the other tokens are prose
OnePayload(text) == Cardinality({i \in DOMAIN text : text[i] = "J"}) = 1

\* C32: when the backend's response text contains one well-formed decision
\* payload surrounded by arbitrary explanatory prose before and/or after it
\* (including prose that itself contains brace characters),
\* parseAgentDecision returns the decision carried by that payload rather
\* than the default decision.
C32_ProseTolerance ==
    (Returned /\ ~response.failed /\ OnePayload(response.text)
            /\ WellFormedPayload(response.payload)) =>
        lastDecision[1] = AsAgentDecision(response.payload, 1)


(***************************************************************************)
(* Claims about the feedback on an activity resume (SpecDetector).         *)
(***************************************************************************)
\* this step is recordActivity invoking onActivityDetected
CallbackStep == callbacks'.onActivityDetected = callbacks.onActivityDetected + 1

\* C33: effectiveness feedback is issued at most once per activity-resume
\* transition: each onActivityDetected callback leads to at most one
\* recordInterventionEffectiveness call and at most one
\* updateInterventionEffectiveness call, both with the same boolean, only if
\* an alert is active, and it clears alarmActive; a callback arriving with
\* alarmActive=false issues no feedback.
C33_FeedbackOncePerResume ==
    [][CallbackStep =>
        IF alarmActive
        THEN /\ ~alarmActive'
             /\ lastCall'.op = "recordInterventionEffectiveness"
             /\ Len(ema'.samples) = Len(ema.samples) + 1
             /\ interventionHistory'[Len(interventionHistory')].wasEffective =
                    Some(ema'.samples[Len(ema'.samples)])
        ELSE UNCHANGED <<interventionHistory, lastCall, userProfile, ema, alarmActive>>
      ]_vars


\* C34: the record scored on an activity resume is the intervention whose
\* execution raised the active alert: in every interleaving, when
\* handleActivityDetected records effectiveness, the last history record is
\* the intervention most recently passed to executeIntervention, so that the
\* elapsed time compared against the 60-second threshold
\* (lastInterventionTime is set by that execution) is measured from the
\* scored intervention's own execution, never from an earlier intervention
\* while a newer record has been appended but not yet executed.
C34_ScoresExecutedIntervention ==
    [][ScoringStep =>
            /\ interventionHistory # <<>>
            /\ executed # <<>>
            /\ interventionHistory[Len(interventionHistory)].seq = executed[Len(executed)]
      ]_vars


(***************************************************************************)
(* Claims about decision cycles and shutdown (SpecShutdown).  The detector *)
(* starts with totalInterventions = 0.                                     *)
(***************************************************************************)
\* C35: with memory enabled, every intervention passed to the executor is
\* counted: in every reachable state in which no decision cycle is in flight,
\* the number of executeIntervention invocations since initialization equals
\* the increase of the profile's totalInterventions since initialization,
\* including for cycles that complete after stop() has closed the session.
C35_ExecutionsCounted ==
    InFlight = {} => Len(executed) = userProfile.totalInterventions


\* stop() has been entered: only stop() clears the periodic timer
Stopped == ~screenCheckInterval

\* C36: once AgentBasedDetector.stop() has been entered, no intervention is
\* executed and no new history record is appended, even when a decision cycle
\* was already in flight (suspended on the classifier or the reasoning
\* backend) at the moment stop() was called.
C36_QuiescentAfterStop ==
    [][Stopped => executed' = executed /\ appended' = appended]_vars


(***************************************************************************)
(* Claims about the monitor's callbacks (SpecMonitor).                     *)
(***************************************************************************)
\* C37: after ActivityMonitor.stop() has returned, neither onIdleDetected nor
\* onActivityDetected is ever fired again, whatever activity events arrive
\* afterwards and whether or not the monitor was in the idle state when
\* stop() was called.  (The idle check is disarmed before start() and from
\* stop() until the next start().)
C37_SilentAfterStop ==
    [][~idleCheckInterval => callbacks' = callbacks]_vars


\* this step fires the callback
FiresIdle == callbacks'.onIdleDetected # callbacks.onIdleDetected
FiresActivity == callbacks'.onActivityDetected # callbacks.onActivityDetected

\* C38: the two ActivityMonitor callbacks strictly alternate, starting with
\* onIdleDetected: onActivityDetected never fires before the first
\* onIdleDetected, and between any two firings of one callback there is
\* exactly one firing of the other (onIdleDetected fires only when both have
\* fired equally often, onActivityDetected only when onIdleDetected is one
\* ahead, one firing per step); isUserIdle() is true exactly between an
\* onIdleDetected and the next onActivityDetected.
C38_CallbacksAlternate ==
    /\ [](isIdle <=> callbacks.onIdleDetected = callbacks.onActivityDetected + 1)
    /\ [](~isIdle <=> callbacks.onIdleDetected = callbacks.onActivityDetected)
    /\ [][/\ FiresIdle =>
                /\ callbacks'.onIdleDetected = callbacks.onIdleDetected + 1
                /\ ~FiresActivity
                /\ callbacks.onIdleDetected = callbacks.onActivityDetected
          /\ FiresActivity =>
                /\ callbacks'.onActivityDetected = callbacks.onActivityDetected + 1
                /\ ~FiresIdle
                /\ callbacks.onIdleDetected = callbacks.onActivityDetected + 1
         ]_vars

\* idle has been detected a second time, after one resume, and the monitor
\* is idle
C38_Witness ==
    /\ callbacks = [onIdleDetected |-> 2, onActivityDetected |-> 1]
    /\ isIdle
    /\ listening


(***************************************************************************)
(* Claims about the alert and the history (SpecDetector).                  *)
(***************************************************************************)
\* C39: in the agent detector, alarmActive=true implies the engine's
\* intervention history is non-empty, in every reachable state; hence the
\* effectiveness feedback issued by handleActivityDetected never reaches an
\* empty history.
C39_AlertHasRecord ==
    /\ [](alarmActive => interventionHistory # <<>>)
    /\ [][ScoringStep =>
            /\ Len(interventionHistory) > 0
            /\ lastCall'.op = "recordInterventionEffectiveness"
         ]_vars

\* an alert is active and the user, who was idle, has not resumed yet: the
\* next input event issues the feedback
C39_Witness ==
    /\ alarmActive
    /\ isIdle
    /\ listening
    /\ Len(interventionHistory) = 1
    /\ executed = <<1>>


(***************************************************************************)
(* Claims about the histograms and the counters (SpecMemory).              *)
(***************************************************************************)
\* C40: starting from the default profile, after any sequence of
\* MemorySystem operations the sum of all productive-histogram counts equals
\* productiveSessions and the sum of all counts of both histograms equals
\* totalSessions, and every histogram key is an hour in 0..23.
C40_HistogramSums ==
    /\ SumOfCounts(userProfile.productiveHoursMap) = userProfile.productiveSessions
    /\ SumOfCounts(userProfile.productiveHoursMap)
            + SumOfCounts(userProfile.unproductiveHoursMap) = userProfile.totalSessions
    /\ DOMAIN userProfile.productiveHoursMap \subseteq HourKeys
    /\ DOMAIN userProfile.unproductiveHoursMap \subseteq HourKeys

\* two productive sessions that started in the same hour have been closed,
\* and the profile has been read back from the memory file
C40_Witness ==
    /\ lastMemoryCall.op = "load"
    /\ lastMemoryCall.loaded
    /\ userProfile.productiveSessions = 2
    /\ userProfile.totalSessions = 2
    /\ Cardinality(DOMAIN userProfile.productiveHoursMap) = 1


====
